---- MODULE Spec2Model ----
(***************************************************************************)
(* Model of the bucket browser of src/main.go: the bucket path resolver    *)
(* (findBucket), the key search (searchKeys / searchInBucket) and the      *)
(* value classifier (parseKeyValue, getKeyDetails, getFullKeyData).        *)
(*                                                                         *)
(* Strings are sequences of byte values (0..255), so "/" is <<47>> and     *)
(* "a/a" is <<97, 47, 97>>.  A bucket is identified by the chain of real   *)
(* names that leads to it from the root of the store; <<>> stands for the  *)
(* nil *bolt.Bucket.                                                       *)
(***************************************************************************)
EXTENDS Integers, Sequences, FiniteSets, TLC

(***************************************************************************)
(* Bounds of the model.                                                    *)
(***************************************************************************)
\* the most path segments the names of one bucket chain hold together
MaxSegs == 4
\* the most buckets a store holds
MaxBuckets == 4

(***************************************************************************)
(* Bytes.                                                                  *)
(***************************************************************************)
Slash == 47
LetterA == 97

VARIABLES
    db,      \* the store: [buckets |-> set of chains, kv |-> chain -> its pairs]
    pc,      \* position of the running operation: "idle", "loop", "done"
    path,    \* findBucket: the path argument
    parts,   \* findBucket: the non-empty segments of the trimmed path
    bucket,  \* findBucket: the bucket variable (a chain)
    i,       \* findBucket: the loop cursor (0-based, as in the source)
    result,  \* findBucket: the returned bucket, <<>> for nil
    value,   \* classifier: the raw value read from the store
    variant, \* classifier: the function that built kv
    kv,      \* classifier: the KeyValuePair built from value
    query,   \* searchKeys: the lower-cased query
    results, \* searchKeys: the result list
    req,     \* the requests in progress: request id -> its handler's state
    info,    \* getBucketDetails, getAllBuckets: the returned summary
    out,     \* decode handlers, key lookups: the response of the handler
    decodedKey  \* key lookups: the key asked for

vars == <<db, pc, path, parts, bucket, i, result,
          value, variant, kv, query, results, req, info, out,
          decodedKey>>

fbVars == <<path, parts, bucket, i, result>>

clVars == <<value, variant, kv>>

seVars == <<query, results>>

rqVars == <<req>>

biVars == <<info>>

deVars == <<out, decodedKey>>

NilBucket == <<>>

\* no request in progress
NoRequests == <<>>

\* no summary built
NoInfo == [op |-> "none", err |-> "", buckets |-> <<>>]

\* no decode response built
NoOut == [op |-> "none", err |-> "", data |-> [kind |-> "none"]]

\* the KeyValuePair before a classifier has filled it
NoKV == [Key |-> <<>>, ValueSize |-> 0, IsBinary |-> FALSE, IsJSON |-> FALSE,
         ValueType |-> "", Value |-> [kind |-> "none", num |-> 0, str |-> <<>>],
         Preview |-> [kind |-> "text", text |-> <<>>, dumped |-> 0, more |-> 0]]

(***************************************************************************)
(* strings.Trim, strings.Split, strings.Join with the separator "/".       *)
(***************************************************************************)
RECURSIVE TrimLeft(_)
TrimLeft(s) ==
    IF s # <<>> /\ Head(s) = Slash THEN TrimLeft(Tail(s)) ELSE s

RECURSIVE TrimRight(_)
TrimRight(s) ==
    IF s # <<>> /\ s[Len(s)] = Slash
    THEN TrimRight(SubSeq(s, 1, Len(s) - 1))
    ELSE s

Trim(s) == TrimRight(TrimLeft(s))

RECURSIVE Split(_)
Split(s) ==
    IF \A k \in 1..Len(s) : s[k] # Slash
    THEN <<s>>
    ELSE LET k == CHOOSE k \in 1..Len(s) :
                     s[k] = Slash /\ \A m \in 1..(k - 1) : s[m] # Slash
         IN  <<SubSeq(s, 1, k - 1)>> \o Split(SubSeq(s, k + 1, Len(s)))

RECURSIVE Join(_)
Join(ps) ==
    IF ps = <<>> THEN <<>>
    ELSE IF Len(ps) = 1 THEN ps[1]
    ELSE ps[1] \o <<Slash>> \o Join(Tail(ps))

\* the loop that keeps the non-empty segments of partsRaw
NonEmptyParts(partsRaw) == SelectSeq(partsRaw, LAMBDA p : p # <<>>)

\* parts[i:j] of the source, both indices 0-based
Slice(ps, from, to) == SubSeq(ps, from + 1, to)

(***************************************************************************)
(* The store as bbolt shows it inside one read transaction.                *)
(***************************************************************************)
\* tx.Bucket(name): a top-level bucket, or nil
TxBucket(name) ==
    IF <<name>> \in db.buckets THEN <<name>> ELSE NilBucket

\* b.Bucket(name): the nested bucket of b with that exact name, or nil
SubBucket(b, name) ==
    IF Append(b, name) \in db.buckets THEN Append(b, name) ELSE NilBucket

(***************************************************************************)
(* findBucket, lines 1576-1651.  One action per call, per iteration of the *)
(* main loop, and for the return after the loop.                           *)
(***************************************************************************)
\* mutant of ExactMatch: the single-segment lookup is dropped
ExactMatch_Dropped(b, ps, c) == NilBucket

\* line 1606: next := bucket.Bucket([]byte(name))
ExactMatch(b, ps, c) == SubBucket(b, ps[c + 1])

\* mutant of RemainderMatch: joins two segments, not all that remain
RemainderMatch_TwoOnly(b, ps, c) ==
    IF c + 2 <= Len(ps)
    THEN SubBucket(b, Join(Slice(ps, c, c + 2)))
    ELSE SubBucket(b, Join(Slice(ps, c, Len(ps))))

\* lines 1609-1610: all remaining segments as one sub-bucket name
RemainderMatch(b, ps, c) == SubBucket(b, Join(Slice(ps, c, Len(ps))))

\* mutant of LongestMatch: no join short of all remaining segments is tried
LongestMatch_Dropped(b, ps, c) == 0

\* lines 1618-1627: for j := len(parts); j > i+1; j-- { ... break }
\* the first j of that scan whose joined segments name a sub-bucket, 0 if none
RECURSIVE ScanDown(_, _, _, _)
ScanDown(b, ps, c, j) ==
    IF j <= c + 1 THEN 0
    ELSE IF SubBucket(b, Join(Slice(ps, c, j))) # NilBucket THEN j
    ELSE ScanDown(b, ps, c, j - 1)

LongestMatch(b, ps, c) == ScanDown(b, ps, c, Len(ps))

\* mutant of NotFound: falls back to the bucket reached so far
NotFound_ParentFallback(b) == b

\* line 1644: return nil when nothing matched at this level
NotFound(b) == NilBucket

\* mutant of LoopBody: the join of all remaining segments is tried before
\* the exact match
LoopBody_ContractionFirst(b, ps, c) ==
    IF RemainderMatch(b, ps, c) # NilBucket
    THEN [ret |-> TRUE, bucket |-> RemainderMatch(b, ps, c), i |-> c,
          result |-> RemainderMatch(b, ps, c)]
    ELSE IF ExactMatch(b, ps, c) # NilBucket
    THEN [ret |-> FALSE, bucket |-> ExactMatch(b, ps, c), i |-> c + 1,
          result |-> NilBucket]
    ELSE [ret |-> TRUE, bucket |-> b, i |-> c, result |-> NotFound(b)]

\* mutant of LoopBody: a join entered by contraction leaves the cursor where
\* it was
LoopBody_CursorKept(b, ps, c) ==
    IF ExactMatch(b, ps, c) # NilBucket
    THEN [ret |-> FALSE, bucket |-> ExactMatch(b, ps, c), i |-> c + 1,
          result |-> NilBucket]
    ELSE IF RemainderMatch(b, ps, c) # NilBucket
    THEN [ret |-> TRUE, bucket |-> RemainderMatch(b, ps, c), i |-> c,
          result |-> RemainderMatch(b, ps, c)]
    ELSE IF LongestMatch(b, ps, c) # 0
    THEN [ret |-> FALSE,
          bucket |-> SubBucket(b, Join(Slice(ps, c, LongestMatch(b, ps, c)))),
          i |-> c, result |-> NilBucket]
    ELSE [ret |-> TRUE, bucket |-> b, i |-> c, result |-> NotFound(b)]

\* lines 1605-1647: one iteration with bucket = b, parts = ps, i = c.
\* ret: the iteration returns from findBucket with result; otherwise the loop
\* goes on with the new bucket and the cursor i (already incremented).
LoopBody(b, ps, c) ==
    LET next == ExactMatch(b, ps, c) IN
    IF next = NilBucket
    THEN LET try == RemainderMatch(b, ps, c) IN
         IF try # NilBucket
         THEN [ret |-> TRUE, bucket |-> try, i |-> c, result |-> try]
         ELSE LET j == LongestMatch(b, ps, c) IN
              IF j # 0
              THEN [ret |-> FALSE,
                    bucket |-> SubBucket(b, Join(Slice(ps, c, j))),
                    i |-> (j - 1) + 1, result |-> NilBucket]
              ELSE [ret |-> TRUE, bucket |-> b, i |-> c,
                    result |-> NotFound(b)]
    ELSE [ret |-> FALSE, bucket |-> next, i |-> c + 1, result |-> NilBucket]

\* lines 1576-1602: normalise the path and look up the top-level bucket
FindBucketCall(p) ==
    /\ pc = "idle"
    /\ path' = p
    /\ LET trimmed == Trim(p)
           ps == IF trimmed = <<>> THEN <<>>
                 ELSE NonEmptyParts(Split(trimmed))
           top == IF ps = <<>> THEN NilBucket ELSE TxBucket(ps[1])
       IN  /\ parts' = ps
           /\ bucket' = top
           /\ IF top = NilBucket
              THEN pc' = "done" /\ result' = NilBucket /\ i' = 0
              ELSE pc' = "loop" /\ result' = NilBucket /\ i' = 1
    /\ UNCHANGED <<db, clVars, seVars, rqVars, biVars, deVars>>

\* lines 1604-1648: one iteration of the loop
FindBucketLoop ==
    /\ pc = "loop"
    /\ i < Len(parts)
    /\ LET r == LoopBody(bucket, parts, i) IN
       /\ bucket' = r.bucket
       /\ i' = r.i
       /\ result' = r.result
       /\ pc' = IF r.ret THEN "done" ELSE "loop"
    /\ UNCHANGED <<db, path, parts, clVars, seVars, rqVars, biVars, deVars>>

\* line 1650: return bucket
FindBucketReturn ==
    /\ pc = "loop"
    /\ i >= Len(parts)
    /\ pc' = "done"
    /\ result' = bucket
    /\ UNCHANGED <<db, path, parts, bucket, i, clVars, seVars, rqVars, biVars, deVars>>

\* the caller has taken the result; the locals of the call are gone
FindBucketDone ==
    /\ pc = "done"
    /\ pc' = "idle"
    /\ path' = <<>>
    /\ parts' = <<>>
    /\ bucket' = NilBucket
    /\ i' = 0
    /\ result' = NilBucket
    /\ UNCHANGED <<db, clVars, seVars, rqVars, biVars, deVars>>

(***************************************************************************)
(* The stores and paths findBucket is run on.  Bucket names are one or     *)
(* more segments "a" joined by "/" ("a", "a/a", "a/a/a", ...); a store is  *)
(* any set of at most MaxBuckets buckets in which every nested bucket has  *)
(* its parent.  A path is up to MaxSegs raw segments joined by "/": the    *)
(* empty segment (a leading, trailing or doubled "/"), "a", or "aa", the   *)
(* name no bucket has.                                                     *)
(***************************************************************************)
NameOfSegs(k) == Join([m \in 1..k |-> <<LetterA>>])

RECURSIVE SegChains(_)
SegChains(m) ==
    {<<>>} \cup
    UNION {{<<NameOfSegs(k)>> \o c : c \in SegChains(m - k)} : k \in 1..m}

Chains == SegChains(MaxSegs) \ {<<>>}

\* a bucket exists only inside its parent bucket
CanCreate(S, c) ==
    /\ c \notin S
    /\ Len(c) = 1 \/ SubSeq(c, 1, Len(c) - 1) \in S

RECURSIVE StoresOf(_)
StoresOf(n) ==
    IF n = 0 THEN {{}}
    ELSE StoresOf(n - 1) \cup
         UNION {{S \cup {c} : c \in {d \in Chains : CanCreate(S, d)}} :
                S \in StoresOf(n - 1)}

ResolveStores == StoresOf(MaxBuckets)

RawSegs == {<<>>, <<LetterA>>, <<LetterA, LetterA>>}

RECURSIVE SeqsOf(_, _)
SeqsOf(S, n) ==
    IF n = 0 THEN {<<>>}
    ELSE SeqsOf(S, n - 1) \cup
         {Append(q, x) : q \in SeqsOf(S, n - 1), x \in S}

Paths == {Join(q) : q \in SeqsOf(RawSegs, MaxSegs)}

InitResolve ==
    /\ db \in {[buckets |-> S, kv |-> <<>>] : S \in ResolveStores}
    /\ pc = "idle"
    /\ path = <<>>
    /\ parts = <<>>
    /\ bucket = NilBucket
    /\ i = 0
    /\ result = NilBucket
    /\ value = <<>>
    /\ variant = "none"
    /\ kv = NoKV
    /\ query = <<>>
    /\ results = <<>>
    /\ req = NoRequests
    /\ info = NoInfo
    /\ out = NoOut
    /\ decodedKey = <<>>

NextResolve ==
    \/ \E p \in Paths : FindBucketCall(p)
    \/ FindBucketLoop
    \/ FindBucketReturn
    \/ FindBucketDone

SpecResolve == InitResolve /\ [][NextResolve]_vars

(***************************************************************************)
(* The logical path the tree builder reports for a bucket: string(name) at *)
(* the top level (line 1494), path + "/" + string(k) below (line 1530).    *)
(***************************************************************************)
RECURSIVE BucketInfoPath(_)
BucketInfoPath(c) ==
    IF Len(c) = 1 THEN c[1]
    ELSE BucketInfoPath(SubSeq(c, 1, Len(c) - 1)) \o <<Slash>> \o c[Len(c)]

(***************************************************************************)
(* Claims about findBucket, checked under SpecResolve.                     *)
(***************************************************************************)
NoSlash(name) == \A k \in 1..Len(name) : name[k] # Slash

SlashFree(c) == \A k \in 1..Len(c) : NoSlash(c[k])

\* the segments the names of a chain are made of, in order
RECURSIVE SegsOfChain(_)
SegsOfChain(c) ==
    IF c = <<>> THEN <<>> ELSE Split(Head(c)) \o SegsOfChain(Tail(c))

\* the path without leading and trailing "/" and without empty segments
NormalisedSegs(p) ==
    IF Trim(p) = <<>> THEN <<>> ELSE NonEmptyParts(Split(Trim(p)))

PathANonexistent == <<LetterA, Slash, LetterA, LetterA>>

\* C1: when the buckets b0, ..., bn are really nested and no name holds a
\* "/", findBucket on the names joined by "/" returns exactly bn.
C1_NestedPathResolves ==
    pc = "done" =>
        \A c \in db.buckets :
            (SlashFree(c) /\ path = Join(c)) => result = c

\* C1 witness: "a/a/a" has resolved to the bucket at nesting depth 2.
C1_Witness ==
    /\ pc = "done"
    /\ Len(result) = 3
    /\ SlashFree(result)
    /\ path = Join(result)

\* C2: with the single top-level bucket named "a/a", findBucket("a/a")
\* returns that bucket.
C2_SlashNameAtTopLevel ==
    (/\ pc = "done"
     /\ db.buckets = {<<NameOfSegs(2)>>}
     /\ path = NameOfSegs(2))
        => result = <<NameOfSegs(2)>>

\* C3 as stated: a returned bucket's real names, joined with "/", equal the
\* input path.
C3_JoinEqualsInputPath ==
    pc = "done" =>
        \/ result = NilBucket
        \/ result \in db.buckets /\ Join(result) = path

\* C3 amended: findBucket returns nil or a bucket of the store whose real
\* names are made of exactly the non-empty segments of the input path, all
\* of them consumed, so that the names joined with "/" equal the input path
\* without its leading, trailing and doubled "/".
C3_NoPartialSuccess ==
    pc = "done" =>
        \/ result = NilBucket
        \/ /\ result \in db.buckets
           /\ SegsOfChain(result) = NormalisedSegs(path)
           /\ Join(result) = Join(NormalisedSegs(path))

\* C3 witness: a path with extra "/" has resolved, through a name that
\* holds a "/", to a nested bucket.
C3_Witness ==
    /\ pc = "done"
    /\ Len(result) >= 2
    /\ ~SlashFree(result)
    /\ path # Join(result)
    /\ SegsOfChain(result) = NormalisedSegs(path)

\* C4: for every bucket of the store, findBucket on the path the tree
\* builder reports for it returns that same bucket.
C4_RoundTrip ==
    pc = "done" =>
        \A c \in db.buckets : path = BucketInfoPath(c) => result = c

\* no join of consecutive segments starting at the cursor names a child
NoJoinMatches(b, ps, c) ==
    \A j \in (c + 1)..Len(ps) : SubBucket(b, Join(Slice(ps, c, j))) = NilBucket

\* C5: when neither the next segment nor any join of consecutive segments
\* starting at the cursor names a child bucket, findBucket returns nil; the
\* path "a/aa" fails when bucket "a" has no child "aa".
C5_NotFoundWhenNothingMatches ==
    /\ [](pc = "done" /\ path = PathANonexistent => result = NilBucket)
    /\ [][(/\ pc = "loop"
           /\ i < Len(parts)
           /\ NoJoinMatches(bucket, parts, i))
              => (pc' = "done" /\ result' = NilBucket)]_vars

\* C5 witness: "a/aa" has failed below the existing bucket "a".
C5_Witness ==
    /\ pc = "done"
    /\ path = PathANonexistent
    /\ bucket = <<NameOfSegs(1)>>
    /\ i = 1
    /\ NoJoinMatches(bucket, parts, i)
    /\ result = NilBucket

(***************************************************************************)
(* Values.  A value read from the store is a byte string; so that a value  *)
(* of a megabyte stays small, it is kept as its runs: a sequence of        *)
(* [b |-> byte, n |-> how many times], n > 0, adjacent runs of different   *)
(* bytes.  "aaa" is <<[b |-> 97, n |-> 3]>>.  Every operator below is      *)
(* the byte-string operation computed on runs.                             *)
(***************************************************************************)
\* the number of bytes in the runs v[lo..hi]
RECURSIVE BSum(_, _, _)
BSum(v, lo, hi) ==
    IF lo > hi THEN 0
    ELSE IF lo = hi THEN v[lo].n
    ELSE BSum(v, lo, (lo + hi) \div 2) + BSum(v, (lo + hi) \div 2 + 1, hi)

\* len(value)
BLen(v) == BSum(v, 1, Len(v))

\* u + v
BCat(u, v) ==
    IF u = <<>> THEN v
    ELSE IF v = <<>> THEN u
    ELSE IF u[Len(u)].b = v[1].b
    THEN SubSeq(u, 1, Len(u) - 1)
         \o <<[b |-> v[1].b, n |-> u[Len(u)].n + v[1].n]>>
         \o Tail(v)
    ELSE u \o v

\* the byte string of the bytes q[lo..hi] of an explicit sequence
RECURSIVE BOfRange(_, _, _)
BOfRange(q, lo, hi) ==
    IF lo > hi THEN <<>>
    ELSE IF lo = hi THEN <<[b |-> q[lo], n |-> 1]>>
    ELSE BCat(BOfRange(q, lo, (lo + hi) \div 2),
              BOfRange(q, (lo + hi) \div 2 + 1, hi))

\* the byte string of an explicit sequence of bytes
BOf(q) == BOfRange(q, 1, Len(q))

\* n times the byte c
BRep(c, n) == IF n <= 0 THEN <<>> ELSE <<[b |-> c, n |-> n]>>

\* the number of runs of v that lie wholly in its first k bytes
WholeRuns(v, k) == Cardinality({j \in 1..Len(v) : BSum(v, 1, j) <= k})

\* v[:k]
BTake(v, k) ==
    IF k <= 0 THEN <<>>
    ELSE LET m == WholeRuns(v, k) IN
         IF m = Len(v) \/ k = BSum(v, 1, m) THEN SubSeq(v, 1, m)
         ELSE SubSeq(v, 1, m) \o <<[b |-> v[m + 1].b, n |-> k - BSum(v, 1, m)]>>

\* v[k:]
BDrop(v, k) ==
    IF k <= 0 THEN v
    ELSE LET m == WholeRuns(v, k) IN
         IF m = Len(v) \/ k = BSum(v, 1, m) THEN SubSeq(v, m + 1, Len(v))
         ELSE <<[b |-> v[m + 1].b, n |-> v[m + 1].n - (k - BSum(v, 1, m))]>>
              \o SubSeq(v, m + 2, Len(v))

\* v[from:to], 0-based as in the source
BSlice(v, from, to) == BTake(BDrop(v, from), to - from)

\* v[k], 0-based
BAt(v, k) == BDrop(v, k)[1].b

\* the explicit sequence of the bytes of v
RECURSIVE BBytes(_)
BBytes(v) ==
    IF v = <<>> THEN <<>>
    ELSE [k \in 1..v[1].n |-> v[1].b] \o BBytes(Tail(v))

Nul == 0
Quote == 34
Space == 32

(***************************************************************************)
(* utf8.ValidString (line 1707), as the automaton of the UTF-8 encoding:   *)
(* need is the number of continuation bytes still due, lo..hi the range    *)
(* the next one must lie in; need = -1 after an invalid byte.              *)
(***************************************************************************)
Utf8Ok == [need |-> 0, lo |-> 128, hi |-> 191]

Utf8Bad == [need |-> -1, lo |-> 0, hi |-> 0]

Utf8Step(st, c) ==
    IF st.need < 0 THEN Utf8Bad
    ELSE IF st.need = 0
    THEN CASE c < 128 -> Utf8Ok
           [] c \in 194..223 -> [need |-> 1, lo |-> 128, hi |-> 191]
           [] c = 224 -> [need |-> 2, lo |-> 160, hi |-> 191]
           [] c \in (225..236) \cup (238..239) ->
                  [need |-> 2, lo |-> 128, hi |-> 191]
           [] c = 237 -> [need |-> 2, lo |-> 128, hi |-> 159]
           [] c = 240 -> [need |-> 3, lo |-> 144, hi |-> 191]
           [] c \in 241..243 -> [need |-> 3, lo |-> 128, hi |-> 191]
           [] c = 244 -> [need |-> 3, lo |-> 128, hi |-> 143]
           [] OTHER -> Utf8Bad
    ELSE IF st.lo <= c /\ c <= st.hi
    THEN [need |-> st.need - 1, lo |-> 128, hi |-> 191]
    ELSE Utf8Bad

\* the state after n times the byte c: a state the byte leaves unchanged is
\* the state after any number of them
RECURSIVE Utf8Run(_, _, _)
Utf8Run(st, c, n) ==
    IF n = 0 THEN st
    ELSE IF Utf8Step(st, c) = st THEN st
    ELSE Utf8Run(Utf8Step(st, c), c, n - 1)

RECURSIVE Utf8Scan(_, _)
Utf8Scan(st, v) ==
    IF v = <<>> THEN st ELSE Utf8Scan(Utf8Run(st, v[1].b, v[1].n), Tail(v))

ValidString(v) == Utf8Scan(Utf8Ok, v) = Utf8Ok

\* the length of the valid encoding of one rune at the head of the explicit
\* byte sequence q, 0 when there is none (utf8.DecodeRune's RuneError, 1)
RuneLen(q) ==
    LET st == Utf8Step(Utf8Ok, q[1]) IN
    IF st.need < 0 THEN 0
    ELSE IF Len(q) >= 1 + st.need
            /\ Utf8Scan(Utf8Ok, BOf(SubSeq(q, 1, 1 + st.need))) = Utf8Ok
    THEN 1 + st.need
    ELSE 0

(***************************************************************************)
(* isUTF8, lines 1694-1708.                                                *)
(***************************************************************************)
MaxScanBytes == 1048576

\* mutant of TooLong: the limit is off by one
TooLong_AtLimit(n) == n >= MaxScanBytes

\* line 1695: len(data) > 1024*1024
TooLong(n) == n > MaxScanBytes

\* lines 1700-1704: the loop looking for a null byte
HasNul(data) == \E k \in 1..Len(data) : data[k].b = Nul

\* lines 1694-1708
isUTF8(data) ==
    IF BLen(data) = 0 \/ TooLong(BLen(data)) THEN FALSE
    ELSE IF HasNul(data) THEN FALSE
    ELSE ValidString(data)

(***************************************************************************)
(* json.Unmarshal(value, &jsonValue) into an interface{} (line 1663) and   *)
(* json.MarshalIndent (line 1669), for the documents the bytes of          *)
(* ValueBytes can spell: a string without escapes or a number of digits,   *)
(* with white space around it.  The scanner is the automaton of            *)
(* encoding/json on those bytes; "-", ".", "e", "\", "[", "{" and the      *)
(* letters of true, false and null are not among them.                     *)
(***************************************************************************)
IsWs(c) == c \in {32, 9, 10, 13}

IsDigit(c) == c \in 48..57

\* mutant of InStringStep: control bytes are let through inside a string
InStringStep_AnyByte(c) == IF c = Quote THEN "end" ELSE "str"

\* inside a string: the closing quote ends it, a control byte is an error
InStringStep(c) ==
    IF c = Quote THEN "end" ELSE IF c < 32 THEN "bad" ELSE "str"

JsonStep(st, c) ==
    CASE st = "begin" ->
             IF IsWs(c) THEN "begin"
             ELSE IF c = Quote THEN "str"
             ELSE IF c = 48 THEN "zero"
             ELSE IF c \in 49..57 THEN "int"
             ELSE "bad"
      [] st = "str" -> InStringStep(c)
      [] st = "zero" -> IF IsWs(c) THEN "end" ELSE "bad"
      [] st = "int" ->
             IF IsDigit(c) THEN "int" ELSE IF IsWs(c) THEN "end" ELSE "bad"
      [] st = "end" -> IF IsWs(c) THEN "end" ELSE "bad"
      [] OTHER -> "bad"

RECURSIVE JsonRun(_, _, _)
JsonRun(st, c, n) ==
    IF n = 0 THEN st
    ELSE IF JsonStep(st, c) = st THEN st
    ELSE JsonRun(JsonStep(st, c), c, n - 1)

RECURSIVE JsonScan(_, _)
JsonScan(st, v) ==
    IF v = <<>> THEN st ELSE JsonScan(JsonRun(st, v[1].b, v[1].n), Tail(v))

\* json.Unmarshal(value, &jsonValue) == nil
JsonValid(v) == JsonScan("begin", v) \in {"zero", "int", "end"}

\* the number of white-space bytes at the head of v
RECURSIVE LeadWs(_)
LeadWs(v) ==
    IF v = <<>> \/ ~IsWs(v[1].b) THEN 0 ELSE v[1].n + LeadWs(Tail(v))

\* the number of white-space bytes at the end of v
RECURSIVE TrailWs(_)
TrailWs(v) ==
    IF v = <<>> \/ ~IsWs(v[Len(v)].b) THEN 0
    ELSE v[Len(v)].n + TrailWs(SubSeq(v, 1, Len(v) - 1))

\* U+FFFD, which replaces each byte of an invalid encoding
Replacement == BOf(<<239, 191, 189>>)

\* a stretch of bytes >= 128 of a string literal, decoded rune by rune
RECURSIVE FixStretch(_)
FixStretch(q) ==
    IF q = <<>> THEN <<>>
    ELSE IF RuneLen(q) = 0 THEN BCat(Replacement, FixStretch(Tail(q)))
    ELSE BCat(BOf(SubSeq(q, 1, RuneLen(q))),
              FixStretch(SubSeq(q, RuneLen(q) + 1, Len(q))))

\* the Go string of the content of a string literal: ASCII bytes are kept,
\* invalid UTF-8 is replaced
RECURSIVE Unquote(_, _)
Unquote(v, pending) ==
    IF v = <<>> THEN FixStretch(pending)
    ELSE IF v[1].b < 128
    THEN BCat(BCat(FixStretch(pending), <<v[1]>>), Unquote(Tail(v), <<>>))
    ELSE Unquote(Tail(v), pending \o [k \in 1..v[1].n |-> v[1].b])

\* the float64 of a sequence of digits (exact below 2^53)
RECURSIVE NumberOf(_)
NumberOf(q) ==
    IF q = <<>> THEN 0 ELSE 10 * NumberOf(SubSeq(q, 1, Len(q) - 1)) + (q[Len(q)] - 48)

\* the decimal digits of n, as fmt's %d and strconv print them
RECURSIVE Digits(_)
Digits(n) ==
    IF n < 10 THEN <<48 + n>> ELSE Append(Digits(n \div 10), 48 + (n % 10))

GoString(t) == [kind |-> "string", num |-> 0, str |-> t]

GoNumber(n) == [kind |-> "number", num |-> n, str |-> <<>>]

\* the value json.Unmarshal stores in jsonValue for a valid document
JsonDecode(v) ==
    LET core == BSlice(v, LeadWs(v), BLen(v) - TrailWs(v)) IN
    IF core[1].b = Quote
    THEN GoString(Unquote(BSlice(core, 1, BLen(core) - 1), <<>>))
    ELSE GoNumber(NumberOf(BBytes(core)))

\* json.MarshalIndent(jsonValue, "", "  ") of such a value: no byte of a
\* decoded string needs an escape (it holds no quote, no backslash, no
\* control byte, and "<", ">", "&" are not among ValueBytes)
JsonRender(doc) ==
    IF doc.kind = "string"
    THEN BCat(BCat(BOf(<<Quote>>), doc.str), BOf(<<Quote>>))
    ELSE BOf(Digits(doc.num))

(***************************************************************************)
(* Previews.  A preview is text, or the hex dump of the first dumped bytes *)
(* of the value followed, when more > 0, by the "... N more bytes" line;   *)
(* HexDumpText spells a dump out.                                          *)
(***************************************************************************)
TextPreview(t) == [kind |-> "text", text |-> t, dumped |-> 0, more |-> 0]

HexDump(dumped, more) ==
    [kind |-> "hexdump", text |-> <<>>, dumped |-> dumped, more |-> more]

PreviewLimit == 1000

DumpCap == 256

LineBytes == 16

HexColumn == 48

\* "\n... (truncated)"
TruncMarker == BOf(<<10, 46, 46, 46, 32, 40, 116, 114, 117, 110, 99, 97, 116, 101, 100, 41>>)

\* lines 1671-1673 and 1685-1687: the preview cut to 1000 bytes
Truncate(t) ==
    IF BLen(t) > PreviewLimit
    THEN BCat(BTake(t, PreviewLimit), TruncMarker)
    ELSE t

\* mutant of formatBinaryPreview: the bytes past the cap go unreported
formatBinaryPreview_NoMarker(data) ==
    IF BLen(data) = 0
    THEN TextPreview(BOf(<<40, 101, 109, 112, 116, 121, 32, 100, 97, 116, 97, 41>>))
    ELSE HexDump(IF BLen(data) < DumpCap THEN BLen(data) ELSE DumpCap, 0)

\* lines 1711-1753
formatBinaryPreview(data) ==
    IF BLen(data) = 0
    THEN TextPreview(BOf(<<40, 101, 109, 112, 116, 121, 32, 100, 97, 116, 97, 41>>))
    ELSE LET maxBytes == IF BLen(data) < DumpCap THEN BLen(data) ELSE DumpCap
         IN  HexDump(maxBytes,
                     IF BLen(data) > maxBytes THEN BLen(data) - maxBytes ELSE 0)

HexDigit(d) == IF d < 10 THEN 48 + d ELSE 87 + d

RECURSIVE HexDigits(_)
HexDigits(n) ==
    IF n < 16 THEN <<HexDigit(n)>>
    ELSE Append(HexDigits(n \div 16), HexDigit(n % 16))

\* %04x
Hex4(n) ==
    IF Len(HexDigits(n)) >= 4 THEN HexDigits(n)
    ELSE [k \in 1..(4 - Len(HexDigits(n))) |-> 48] \o HexDigits(n)

\* %02x and a space, for each byte
RECURSIVE HexOf(_)
HexOf(q) ==
    IF q = <<>> THEN <<>>
    ELSE <<HexDigit(Head(q) \div 16), HexDigit(Head(q) % 16), Space>>
         \o HexOf(Tail(q))

\* lines 1741-1743: for len(hex) < 48 { hex += " " }
PadHex(h) ==
    IF Len(h) < HexColumn THEN h \o [k \in 1..(HexColumn - Len(h)) |-> Space]
    ELSE h

\* lines 1733-1737: printable bytes as themselves, the others as "."
AsciiOf(q) ==
    [k \in 1..Len(q) |-> IF q[k] >= 32 /\ q[k] <= 126 THEN q[k] ELSE 46]

\* lines 1728-1745: the line of the bytes data[from:to], "%04x: %s |%s|\n"
HexLine(data, from, to) ==
    LET q == BBytes(BSlice(data, from, to)) IN
    Hex4(from) \o <<58, Space>> \o PadHex(HexOf(q)) \o <<Space, 124>>
        \o AsciiOf(q) \o <<124, 10>>

RECURSIVE HexLines(_, _, _)
HexLines(data, from, cap) ==
    IF from >= cap THEN <<>>
    ELSE BCat(BOf(HexLine(data, from,
                          IF from + LineBytes > cap THEN cap
                          ELSE from + LineBytes)),
              HexLines(data, from + LineBytes, cap))

\* the text of a dump: "Hexadecimal preview:\n", the lines, the marker
HexDumpText(data, dumped, more) ==
    BCat(BCat(BOf(<<72, 101, 120, 97, 100, 101, 99, 105, 109, 97, 108, 32, 112, 114, 101, 118, 105, 101, 119, 58, 10>>), HexLines(data, 0, dumped)),
         IF more > 0
         THEN BOf(<<46, 46, 46, 32>> \o Digits(more) \o <<32, 109, 111, 114, 101, 32, 98, 121, 116, 101, 115>>)
         ELSE <<>>)

PreviewText(data, p) ==
    IF p.kind = "text" THEN p.text ELSE HexDumpText(data, p.dumped, p.more)

\* fmt.Sprintf("<%d bytes binary data>", len(value))
BinaryPlaceholder(n) == BOf(<<60>> \o Digits(n) \o <<32, 98, 121, 116, 101, 115, 32, 98, 105, 110, 97, 114, 121, 32, 100, 97, 116, 97, 62>>)

(***************************************************************************)
(* The three classifiers.                                                  *)
(***************************************************************************)
\* mutant of parseKeyValue: the binary rules are applied before the JSON parse
parseKeyValue_BinaryFirst(key, val) ==
    LET bin == ~isUTF8(val) IN
    IF bin
    THEN [Key |-> key, ValueSize |-> BLen(val), IsBinary |-> bin,
          IsJSON |-> FALSE, ValueType |-> "Binary",
          Value |-> GoString(BinaryPlaceholder(BLen(val))),
          Preview |-> formatBinaryPreview(val)]
    ELSE IF JsonValid(val)
    THEN [Key |-> key, ValueSize |-> BLen(val), IsBinary |-> bin,
          IsJSON |-> TRUE, ValueType |-> "JSON", Value |-> JsonDecode(val),
          Preview |-> TextPreview(Truncate(JsonRender(JsonDecode(val))))]
    ELSE [Key |-> key, ValueSize |-> BLen(val), IsBinary |-> bin,
          IsJSON |-> FALSE, ValueType |-> "String", Value |-> GoString(val),
          Preview |-> TextPreview(Truncate(val))]

\* parseKeyValue, lines 1654-1691
parseKeyValue(key, val) ==
    LET bin == ~isUTF8(val) IN
    IF JsonValid(val)
    THEN [Key |-> key, ValueSize |-> BLen(val), IsBinary |-> bin,
          IsJSON |-> TRUE, ValueType |-> "JSON", Value |-> JsonDecode(val),
          Preview |-> TextPreview(Truncate(JsonRender(JsonDecode(val))))]
    ELSE IF bin
    THEN [Key |-> key, ValueSize |-> BLen(val), IsBinary |-> bin,
          IsJSON |-> FALSE, ValueType |-> "Binary",
          Value |-> GoString(BinaryPlaceholder(BLen(val))),
          Preview |-> formatBinaryPreview(val)]
    ELSE [Key |-> key, ValueSize |-> BLen(val), IsBinary |-> bin,
          IsJSON |-> FALSE, ValueType |-> "String", Value |-> GoString(val),
          Preview |-> TextPreview(Truncate(val))]

\* getKeyDetails, lines 1776-1803: the previews of JSON and text are whole
keyDetailsKV(keyName, val) ==
    LET bin == ~isUTF8(val) IN
    IF JsonValid(val)
    THEN [Key |-> keyName, ValueSize |-> BLen(val), IsBinary |-> bin,
          IsJSON |-> TRUE, ValueType |-> "JSON", Value |-> JsonDecode(val),
          Preview |-> TextPreview(JsonRender(JsonDecode(val)))]
    ELSE IF bin
    THEN [Key |-> keyName, ValueSize |-> BLen(val), IsBinary |-> bin,
          IsJSON |-> FALSE, ValueType |-> "Binary",
          Value |-> GoString(BinaryPlaceholder(BLen(val))),
          Preview |-> formatBinaryPreview(val)]
    ELSE [Key |-> keyName, ValueSize |-> BLen(val), IsBinary |-> bin,
          IsJSON |-> FALSE, ValueType |-> "String", Value |-> GoString(val),
          Preview |-> TextPreview(val)]

\* getFullKeyData, lines 1831-1879: the dump covers every byte
fullKeyDataKV(keyName, val) ==
    LET bin == ~isUTF8(val) IN
    IF JsonValid(val)
    THEN [Key |-> keyName, ValueSize |-> BLen(val), IsBinary |-> bin,
          IsJSON |-> TRUE, ValueType |-> "JSON", Value |-> JsonDecode(val),
          Preview |-> TextPreview(JsonRender(JsonDecode(val)))]
    ELSE IF bin
    THEN [Key |-> keyName, ValueSize |-> BLen(val), IsBinary |-> bin,
          IsJSON |-> FALSE, ValueType |-> "Binary",
          Value |-> GoString(BinaryPlaceholder(BLen(val))),
          Preview |-> HexDump(BLen(val), 0)]
    ELSE [Key |-> keyName, ValueSize |-> BLen(val), IsBinary |-> bin,
          IsJSON |-> FALSE, ValueType |-> "String", Value |-> GoString(val),
          Preview |-> TextPreview(val)]

(***************************************************************************)
(* The classifiers run on every value of at most MaxValLen bytes of        *)
(* ValueBytes (NUL, space, quote, "0", "1", "a" and the two bytes of the   *)
(* UTF-8 encoding of U+00E9) and on padded values whose lengths lie around *)
(* the limits of the code: the dump cap, the preview limit, the scan limit,*)
(* and around 300 bytes, a dump of 19 lines; a padded value may end with   *)
(* the two bytes of U+00E9.                                                *)
(***************************************************************************)
MaxValLen == 3

PadSlack == 2

ValueBytes == {Nul, Space, Quote, 48, 49, LetterA, 195, 169}

SmallValues == {BOf(q) : q \in SeqsOf(ValueBytes, MaxValLen)}

PadLens ==
    {k + d : k \in {DumpCap, 300, PreviewLimit, MaxScanBytes},
             d \in (0 - PadSlack)..PadSlack}

PadValues ==
    {BCat(BCat(BOf(pre), BRep(LetterA, n)), BOf(post)) :
        pre \in {<<>>, <<Quote>>, <<Nul>>},
        post \in {<<>>, <<Quote>>, <<195, 169>>},
        n \in PadLens}

Values == SmallValues \cup PadValues

\* the key the classified value is stored under
KeyK == <<107>>

ParseKeyValueCall(v) ==
    /\ pc = "idle"
    /\ value' = v
    /\ variant' = "parseKeyValue"
    /\ kv' = parseKeyValue(KeyK, v)
    /\ pc' = "done"
    /\ UNCHANGED <<db, fbVars, seVars, rqVars, biVars, deVars>>

GetKeyDetailsCall(v) ==
    /\ pc = "idle"
    /\ value' = v
    /\ variant' = "getKeyDetails"
    /\ kv' = keyDetailsKV(KeyK, v)
    /\ pc' = "done"
    /\ UNCHANGED <<db, fbVars, seVars, rqVars, biVars, deVars>>

GetFullKeyDataCall(v) ==
    /\ pc = "idle"
    /\ value' = v
    /\ variant' = "getFullKeyData"
    /\ kv' = fullKeyDataKV(KeyK, v)
    /\ pc' = "done"
    /\ UNCHANGED <<db, fbVars, seVars, rqVars, biVars, deVars>>

\* the caller has taken the KeyValuePair
ClassifyDone ==
    /\ pc = "done"
    /\ pc' = "idle"
    /\ value' = <<>>
    /\ variant' = "none"
    /\ kv' = NoKV
    /\ UNCHANGED <<db, fbVars, seVars, rqVars, biVars, deVars>>

InitClassify ==
    /\ db = [buckets |-> {}, kv |-> <<>>]
    /\ pc = "idle"
    /\ path = <<>>
    /\ parts = <<>>
    /\ bucket = NilBucket
    /\ i = 0
    /\ result = NilBucket
    /\ value = <<>>
    /\ variant = "none"
    /\ kv = NoKV
    /\ query = <<>>
    /\ results = <<>>
    /\ req = NoRequests
    /\ info = NoInfo
    /\ out = NoOut
    /\ decodedKey = <<>>

NextClassify ==
    \/ \E v \in Values : ParseKeyValueCall(v)
    \/ \E v \in Values : GetKeyDetailsCall(v)
    \/ \E v \in Values : GetFullKeyDataCall(v)
    \/ ClassifyDone

SpecClassify == InitClassify /\ [][NextClassify]_vars

\* C7: for every value and in each of the three variants, the binary flag is
\* true exactly when the reported kind is Binary.
C7_BinaryFlagIffBinaryKind ==
    pc = "done" /\ variant # "none" =>
        (kv.IsBinary <=> kv.ValueType = "Binary")

\* C8, as stated: every value that parses as a JSON document has kind JSON,
\* the parsed document as its decoded value and the indented rendering of
\* that document as its preview, whatever the binary rules say, and the
\* rendering parses back to the same document.
C8_JsonPreviewIsRendering ==
    pc = "done" /\ variant # "none" /\ JsonValid(value) =>
        /\ kv.ValueType = "JSON"
        /\ kv.IsJSON
        /\ kv.Value = JsonDecode(value)
        /\ kv.Preview = TextPreview(JsonRender(kv.Value))
        /\ JsonValid(JsonRender(kv.Value))
        /\ JsonDecode(JsonRender(kv.Value)) = kv.Value

\* C8, amended: every value that parses as a JSON document has kind JSON and
\* the parsed document as its decoded value, whatever the binary rules say;
\* its preview is the indented rendering of that document, which
\* parseKeyValue cuts to its first 1000 bytes followed by the truncation
\* marker when it is longer; the rendering parses back to the same document.
C8_JsonDecidedFirst ==
    pc = "done" /\ variant # "none" /\ JsonValid(value) =>
        /\ kv.ValueType = "JSON"
        /\ kv.IsJSON
        /\ kv.Value = JsonDecode(value)
        /\ kv.Preview =
               TextPreview(IF variant = "parseKeyValue"
                              /\ BLen(JsonRender(kv.Value)) > PreviewLimit
                           THEN BCat(BTake(JsonRender(kv.Value), PreviewLimit),
                                     TruncMarker)
                           ELSE JsonRender(kv.Value))
        /\ JsonValid(JsonRender(kv.Value))
        /\ JsonDecode(JsonRender(kv.Value)) = kv.Value

\* a JSON string longer than the scan limit, which the binary rules flag,
\* has been classified JSON by parseKeyValue
C8_Witness ==
    /\ pc = "done"
    /\ variant = "parseKeyValue"
    /\ JsonValid(value)
    /\ BLen(value) > MaxScanBytes
    /\ kv.IsBinary
    /\ kv.ValueType = "JSON"
    /\ kv.Preview.text # JsonRender(kv.Value)

\* C9: a value that is not valid JSON is Binary, with the placeholder
\* "<N bytes binary data>" as its decoded value, exactly when it is empty, or
\* longer than 1048576 bytes, or holds a NUL byte, or is not valid UTF-8;
\* otherwise it is Text and its decoded value is the string itself.
C9_NonJsonBinaryOrText ==
    pc = "done" /\ variant # "none" /\ ~JsonValid(value) =>
        IF \/ BLen(value) = 0
           \/ BLen(value) > MaxScanBytes
           \/ \E k \in 1..Len(value) : value[k].b = Nul
           \/ ~ValidString(value)
        THEN /\ kv.ValueType = "Binary"
             /\ kv.Value = GoString(BinaryPlaceholder(BLen(value)))
        ELSE /\ kv.ValueType = "String"
             /\ kv.Value = GoString(value)

\* a value of exactly 1048576 bytes has been inspected and found to be Text
C9_Witness ==
    /\ pc = "done"
    /\ ~JsonValid(value)
    /\ BLen(value) = MaxScanBytes
    /\ kv.ValueType = "String"
    /\ kv.Value = GoString(value)

\* C10: a value that holds a NUL byte is never Text and never JSON: its kind
\* is Binary.
C10_NulIsBinary ==
    pc = "done" /\ variant # "none" /\ HasNul(value) =>
        kv.ValueType = "Binary"

\* the string literal of one NUL byte has been classified Binary
C10_Witness ==
    /\ pc = "done"
    /\ value = BOf(<<Quote, Nul, Quote>>)
    /\ kv.ValueType = "Binary"

\* the reports a and b agree on kind, decoded value, size and flags
SameReport(a, b) ==
    /\ a.ValueType = b.ValueType
    /\ a.Value = b.Value
    /\ a.ValueSize = b.ValueSize
    /\ a.IsJSON = b.IsJSON
    /\ a.IsBinary = b.IsBinary

\* the preview short is the preview long, or long cut short: the first 1000
\* bytes of its text and the truncation marker, or the first 256 bytes of
\* its dump and the count of the bytes left out
TruncationOf(short, long) ==
    \/ short = long
    \/ /\ short.kind = "text" /\ long.kind = "text"
       /\ BLen(long.text) > PreviewLimit
       /\ short.text = BCat(BTake(long.text, PreviewLimit), TruncMarker)
    \/ /\ short.kind = "hexdump" /\ long.kind = "hexdump"
       /\ short.dumped = DumpCap
       /\ short.more > 0
       /\ long.more = 0
       /\ short.dumped + short.more = long.dumped

\* C11: on the same value the three variants report the same kind, decoded
\* value, byte size, JSON flag and binary flag, a repeated call reports the
\* same again, and two previews differ only by truncation.
C11_ModeIndependent ==
    pc = "done" /\ variant # "none" =>
        \A other \in {parseKeyValue(KeyK, value), keyDetailsKV(KeyK, value),
                      fullKeyDataKV(KeyK, value)} :
            /\ SameReport(kv, other)
            /\ \/ TruncationOf(kv.Preview, other.Preview)
               \/ TruncationOf(other.Preview, kv.Preview)

\* the number of characters in the runs v[lo..hi] of a valid UTF-8 string:
\* every byte but the continuation bytes starts one
RECURSIVE CharSum(_, _, _)
CharSum(v, lo, hi) ==
    IF lo > hi THEN 0
    ELSE IF lo = hi THEN (IF v[lo].b \in 128..191 THEN 0 ELSE v[lo].n)
    ELSE CharSum(v, lo, (lo + hi) \div 2) + CharSum(v, (lo + hi) \div 2 + 1, hi)

CharLen(v) == CharSum(v, 1, Len(v))

\* the first k characters of a valid UTF-8 string
TakeChars(v, k) ==
    LET m == Cardinality({j \in 1..Len(v) : CharSum(v, 1, j) <= k}) IN
    IF m = Len(v) THEN v
    ELSE BCat(SubSeq(v, 1, m), BRep(v[m + 1].b, k - CharSum(v, 1, m)))

\* the full rendering of a JSON or Text value
Rendering == IF kv.ValueType = "JSON" THEN JsonRender(kv.Value) ELSE value

\* C12: for JSON and Text values, the bounded preview (parseKeyValue) is the
\* full rendering when that has at most 1000 characters and otherwise its
\* first 1000 characters followed by the truncation marker; the full preview
\* (getFullKeyData, full=1) is always the entire rendering.
C12_TruncationAt1000Chars ==
    pc = "done" /\ kv.ValueType \in {"JSON", "String"} =>
        /\ variant = "parseKeyValue" =>
               kv.Preview.text =
                   IF CharLen(Rendering) <= PreviewLimit THEN Rendering
                   ELSE BCat(TakeChars(Rendering, PreviewLimit), TruncMarker)
        /\ variant = "getFullKeyData" => kv.Preview.text = Rendering

\* the number of bytes c in the runs t[lo..hi]
RECURSIVE CountByte(_, _, _, _)
CountByte(t, c, lo, hi) ==
    IF lo > hi THEN 0
    ELSE IF lo = hi THEN (IF t[lo].b = c THEN t[lo].n ELSE 0)
    ELSE CountByte(t, c, lo, (lo + hi) \div 2)
         + CountByte(t, c, (lo + hi) \div 2 + 1, hi)

\* the number of lines of the dump text t after its header line
DataLineCount(t) == CountByte(t, 10, 1, Len(t)) - 1

\* what follows the last newline of t
LastLine(t) ==
    LET nl == {j \in 1..Len(t) : t[j].b = 10} IN
    IF nl = {} THEN t
    ELSE SubSeq(t, (CHOOSE m \in nl : \A j \in nl : j <= m) + 1, Len(t))

\* "... N more bytes"
MoreMarker(n) ==
    BOf(<<46, 46, 46, 32>> \o Digits(n)
        \o <<32, 109, 111, 114, 101, 32, 98, 121, 116, 101, 115>>)

\* C13: for a value of n > 0 bytes the bounded dump has ceil(min(n, 256)/16)
\* data lines and, exactly when n > 256, a last line reporting n - 256 more
\* bytes; the unbounded dump has ceil(n/16) data lines and no such line.
C13_DumpSize ==
    /\ pc = "done"
    /\ kv.ValueType = "Binary"
    /\ BLen(value) > 0
    /\ variant = "getFullKeyData" => BLen(value) <= 2 * PreviewLimit
    => IF variant = "getFullKeyData"
       THEN /\ DataLineCount(PreviewText(value, kv.Preview))
                   = (BLen(value) + 15) \div 16
            /\ LastLine(PreviewText(value, kv.Preview)) = <<>>
       ELSE /\ DataLineCount(PreviewText(value, kv.Preview))
                   = ((IF BLen(value) < DumpCap THEN BLen(value) ELSE DumpCap)
                      + 15) \div 16
            /\ LastLine(PreviewText(value, kv.Preview))
                   = IF BLen(value) > DumpCap
                     THEN MoreMarker(BLen(value) - DumpCap)
                     ELSE <<>>

\* a value of 300 bytes has been dumped in the bounded mode: 16 lines and
\* the line for 44 more bytes
C13_Witness ==
    /\ pc = "done"
    /\ variant = "parseKeyValue"
    /\ kv.ValueType = "Binary"
    /\ BLen(value) = 300
    /\ DataLineCount(PreviewText(value, kv.Preview)) = 16
    /\ LastLine(PreviewText(value, kv.Preview)) = MoreMarker(44)

\* C14: the dump of the empty value is the marker "(empty data)", in the
\* bounded mode and in the unbounded mode alike.
C14_EmptyDumpIsMarker ==
    pc = "done" /\ variant # "none" /\ BLen(value) = 0 =>
        PreviewText(value, kv.Preview)
            = BOf(<<40, 101, 109, 112, 116, 121, 32, 100, 97, 116, 97, 41>>)

\* the value of a lowercase hex digit, -1 for any other byte
HexVal(c) ==
    IF c \in 48..57 THEN c - 48 ELSE IF c \in 97..102 THEN c - 87 ELSE 0 - 1

\* the index of the last data line of a dump of dumped > 0 bytes
LastLineIndex(dumped) == (dumped - 1) \div 16

\* the data lines looked at: all of them in a dump of at most 64 lines, else
\* the first two, the last, and the two on either side of offset 65536
LinesChecked(dumped) ==
    IF LastLineIndex(dumped) <= 64 THEN 0..LastLineIndex(dumped)
    ELSE {0, 1, 4095, 4096, LastLineIndex(dumped)} \cap 0..LastLineIndex(dumped)

\* line is laid out as the data line number l (from 0) for the bytes q
LineLayout(line, l, q) ==
    /\ Len(q) >= 1 /\ Len(q) <= 16
    /\ Len(line) = 58 + Len(q)
    /\ \A k \in 1..4 : HexVal(line[k]) >= 0
    /\ 4096 * HexVal(line[1]) + 256 * HexVal(line[2])
           + 16 * HexVal(line[3]) + HexVal(line[4]) = 16 * l
    /\ line[5] = 58 /\ line[6] = 32
    /\ \A k \in 1..Len(q) :
           /\ HexVal(line[6 + 3 * k - 2]) >= 0
           /\ HexVal(line[6 + 3 * k - 1]) >= 0
           /\ 16 * HexVal(line[6 + 3 * k - 2]) + HexVal(line[6 + 3 * k - 1]) = q[k]
           /\ line[6 + 3 * k] = 32
    /\ \A k \in (6 + 3 * Len(q) + 1)..54 : line[k] = 32
    /\ line[55] = 32 /\ line[56] = 124
    /\ \A k \in 1..Len(q) :
           line[56 + k] = IF q[k] >= 32 /\ q[k] <= 126 THEN q[k] ELSE 46
    /\ line[57 + Len(q)] = 124
    /\ line[58 + Len(q)] = 10

\* C15: every data line of a dump, bounded or unbounded, covers at most 16
\* consecutive bytes and is laid out as: the offset 16 * index in exactly 4
\* hex digits, ": ", a hex column of exactly 48 characters (two lowercase
\* hex digits and a space for each byte, then spaces), " |", one character
\* for each byte (the byte itself from 0x20 to 0x7E, "." otherwise), "|".
C15_LineLayout ==
    pc = "done" /\ kv.ValueType = "Binary" /\ kv.Preview.kind = "hexdump" =>
        \A l \in LinesChecked(kv.Preview.dumped) :
            LineLayout(HexLine(value, 16 * l,
                               IF 16 * l + 16 > kv.Preview.dumped
                               THEN kv.Preview.dumped ELSE 16 * l + 16),
                       l,
                       BBytes(BSlice(value, 16 * l,
                                     IF 16 * l + 16 > kv.Preview.dumped
                                     THEN kv.Preview.dumped ELSE 16 * l + 16)))

(***************************************************************************)
(* Search: searchKeys and searchInBucket, lines 1887-1949.  ForEach visits *)
(* the entries of a bucket, nested buckets and keys alike, in the byte     *)
(* order of their names.                                                   *)
(***************************************************************************)
MaxResults == 100

SearchPreviewLimit == 200

\* bytes.Compare(x, y) < 0, for x and y equal before position k
RECURSIVE BytesLessFrom(_, _, _)
BytesLessFrom(x, y, k) ==
    IF k > Len(x) THEN k <= Len(y)
    ELSE IF k > Len(y) THEN FALSE
    ELSE IF x[k] # y[k] THEN x[k] < y[k]
    ELSE BytesLessFrom(x, y, k + 1)

BytesLess(x, y) == BytesLessFrom(x, y, 1)

\* the names of S in the order the store's cursor yields them
SortNames(S) ==
    LET rank == [x \in S |-> Cardinality({y \in S : BytesLess(y, x)})] IN
    [r \in 1..Cardinality(S) |-> CHOOSE x \in S : rank[x] = r - 1]

\* the key/value pairs of bucket b, which the store keeps in the byte order
\* of the keys: a sequence of [k |-> key, v |-> value]
PairsOf(b) == IF b \in DOMAIN db.kv THEN db.kv[b] ELSE <<>>

\* the names of the buckets nested directly in b
SubBucketsOf(b) ==
    {c[Len(c)] : c \in {e \in db.buckets :
                          Len(e) = Len(b) + 1 /\ SubSeq(e, 1, Len(b)) = b}}

\* the entry of a nested bucket at its place among the entries es
InsertBucket(es, name) ==
    LET m == Cardinality({j \in 1..Len(es) : BytesLess(es[j].k, name)}) IN
    SubSeq(es, 1, m) \o <<[k |-> name, nested |-> TRUE, v |-> <<>>]>>
        \o SubSeq(es, m + 1, Len(es))

RECURSIVE InsertBuckets(_, _)
InsertBuckets(es, S) ==
    IF S = {} THEN es
    ELSE InsertBuckets(InsertBucket(es, CHOOSE x \in S : TRUE),
                       S \ {CHOOSE x \in S : TRUE})

\* bucket.ForEach: every entry of b, pairs and nested buckets (for which the
\* callback gets a nil value), in the byte order of their names
EntriesOf(b) ==
    InsertBuckets([j \in 1..Len(PairsOf(b)) |->
                      [k |-> PairsOf(b)[j].k, nested |-> FALSE,
                       v |-> PairsOf(b)[j].v]],
                  SubBucketsOf(b))

\* tx.ForEach: the top-level buckets
TopBuckets == SortNames(SubBucketsOf(<<>>))

\* strings.Map(unicode.ToLower, s), rune by rune: a byte that begins no
\* valid encoding is written as U+FFFD (EF BF BD), an ASCII letter as its
\* lower case; the runes beyond ASCII of the model have no other case
RECURSIVE MapLower(_)
MapLower(t) ==
    IF t = <<>> THEN <<>>
    ELSE IF RuneLen(t) = 0 THEN <<239, 191, 189>> \o MapLower(Tail(t))
    ELSE IF RuneLen(t) = 1
    THEN <<IF t[1] \in 65..90 THEN t[1] + 32 ELSE t[1]>> \o MapLower(Tail(t))
    ELSE SubSeq(t, 1, RuneLen(t))
             \o MapLower(SubSeq(t, RuneLen(t) + 1, Len(t)))

\* strings.ToLower: byte by byte for an ASCII string, else by strings.Map
ToLower(t) ==
    IF \A k \in DOMAIN t : t[k] < 128
    THEN [k \in DOMAIN t |-> IF t[k] \in 65..90 THEN t[k] + 32 ELSE t[k]]
    ELSE MapLower(t)

\* strings.Contains
Contains(t, sub) ==
    \E k \in 0..(Len(t) - Len(sub)) : SubSeq(t, k + 1, k + Len(sub)) = sub

\* lines 1928-1931: the preview of a hit, cut to 200 bytes and "..."
SearchPreview(val, kvp) ==
    LET t == PreviewText(val, kvp.Preview) IN
    IF BLen(t) > SearchPreviewLimit
    THEN BCat(BTake(t, SearchPreviewLimit), BOf(<<46, 46, 46>>))
    ELSE t

\* lines 1927-1940: the map appended for a matching key
SearchHit(p, k, currentPath, val) ==
    LET kvp == parseKeyValue(k, val) IN
    [bucket |-> p, key |-> k, path |-> currentPath, type |-> kvp.ValueType,
     size |-> kvp.ValueSize, preview |-> SearchPreview(val, kvp)]

RECURSIVE searchInBucket(_, _, _, _)
RECURSIVE ForEachEntry(_, _, _, _, _, _, _)

\* lines 1912-1947, the callback on the entry e: it returns nil on every
\* path, so ForEach goes on to the next entry
SearchEntry(b, p, q, res, e) ==
    LET currentPath == (IF p # <<>> THEN p \o <<Slash>> ELSE p) \o e.k IN
    IF e.nested
    THEN IF SubBucket(b, e.k) # NilBucket
         THEN searchInBucket(SubBucket(b, e.k), currentPath, q, res)
         ELSE res
    ELSE IF Contains(ToLower(e.k), q)
    THEN Append(res, SearchHit(p, e.k, currentPath, e.v))
    ELSE res

\* bucket.ForEach on the entries names[lo..hi], one after the other: the
\* second half starts from the results the first half has left
ForEachEntry(b, p, q, res, names, lo, hi) ==
    IF lo > hi \/ Len(res) < 0 THEN res
    ELSE IF lo = hi THEN SearchEntry(b, p, q, res, names[lo])
    ELSE ForEachEntry(b, p, q,
                      ForEachEntry(b, p, q, res, names, lo, (lo + hi) \div 2),
                      names, (lo + hi) \div 2 + 1, hi)

\* lines 1907-1949
searchInBucket(b, p, q, res) ==
    IF Len(res) >= MaxResults THEN res
    ELSE ForEachEntry(b, p, q, res, EntriesOf(b), 1, Len(EntriesOf(b)))

\* lines 1897-1901: searchInBucket on each top-level bucket
RECURSIVE SearchTop(_, _, _)
SearchTop(names, q, res) ==
    IF names = <<>> THEN res
    ELSE SearchTop(Tail(names), q,
                   searchInBucket(<<Head(names)>>, Head(names), q, res))

\* lines 1887-1904
searchKeys(q) == SearchTop(TopBuckets, ToLower(q), <<>>)

SearchKeysCall(q) ==
    /\ pc = "idle"
    /\ query' = q
    /\ results' = searchKeys(q)
    /\ pc' = "done"
    /\ UNCHANGED <<db, fbVars, clVars, rqVars, biVars, deVars>>

\* the handler has sent the results
SearchDone ==
    /\ pc = "done"
    /\ pc' = "idle"
    /\ query' = <<>>
    /\ results' = <<>>
    /\ UNCHANGED <<db, fbVars, clVars, rqVars, biVars, deVars>>

(***************************************************************************)
(* The stores searched: a top-level bucket "a" with n1 keys and a nested   *)
(* bucket "b" with n2 keys, and a top-level bucket "b" with n3 keys.  The  *)
(* keys of a bucket are KeyName(1), KeyName(2), ...: "k" or "K" and one    *)
(* more byte.  n1 is small or close to MaxKeys, n2 and n3 are small.       *)
(* PairsSorted says that the pairs of each bucket are in key order.        *)
(***************************************************************************)
MaxKeys == 101

SmallKeys == 2

LetterB == 98

KeyName(n) == <<IF n % 2 = 0 THEN 75 ELSE 107, n>>

\* a number, a text or a binary value
ValueOfKey(n) ==
    CASE n % 3 = 0 -> BOf(<<Nul>>)
      [] n % 3 = 1 -> BOf(<<49>>)
      [] OTHER -> BOf(<<LetterA>>)

KeyCounts == (0..SmallKeys) \cup ((MaxKeys - SmallKeys)..MaxKeys)

\* the pairs KeyName(1..n) in key order: the "K" keys, then the "k" keys
PairsUpTo(n) ==
    [j \in 1..n |->
        LET m == IF j <= n \div 2 THEN 2 * j ELSE 2 * (j - n \div 2) - 1
        IN  [k |-> KeyName(m), v |-> ValueOfKey(m)]]

SearchStore(n1, n2, n3) ==
    [buckets |-> {<<<<LetterA>>>>, <<<<LetterA>>, <<LetterB>>>>, <<<<LetterB>>>>},
     kv |-> [c \in {<<<<LetterA>>>>, <<<<LetterA>>, <<LetterB>>>>, <<<<LetterB>>>>} |->
                PairsUpTo(IF c = <<<<LetterA>>>> THEN n1
                          ELSE IF c = <<<<LetterB>>>> THEN n3 ELSE n2)]]

PairsSorted ==
    \A c \in DOMAIN db.kv : \A j \in 1..(Len(db.kv[c]) - 1) :
        BytesLess(db.kv[c][j].k, db.kv[c][j + 1].k)

\* bucket "a" with two keys that are no text: the byte FE, and the byte FE
\* followed by "k"
BinaryKeyStore ==
    [buckets |-> {<<<<LetterA>>>>},
     kv |-> [c \in {<<<<LetterA>>>>} |->
                <<[k |-> <<254>>, v |-> BOf(<<49>>)],
                  [k |-> <<254, 107>>, v |-> BOf(<<49>>)]>>]]

SearchStores ==
    {SearchStore(n1, n2, n3) :
        n1 \in KeyCounts, n2 \in 0..SmallKeys, n3 \in 0..SmallKeys}
    \cup {BinaryKeyStore}

\* "k", "K", "z", the whole name of the first key, the name "b" of buckets,
\* the byte "1" of values, and the byte FF (q=%FF)
Queries ==
    {<<107>>, <<75>>, <<122>>, KeyName(1), <<LetterB>>, <<49>>, <<255>>}

InitSearch ==
    /\ db \in SearchStores
    /\ pc = "idle"
    /\ path = <<>>
    /\ parts = <<>>
    /\ bucket = NilBucket
    /\ i = 0
    /\ result = NilBucket
    /\ value = <<>>
    /\ variant = "none"
    /\ kv = NoKV
    /\ query = <<>>
    /\ results = <<>>
    /\ req = NoRequests
    /\ info = NoInfo
    /\ out = NoOut
    /\ decodedKey = <<>>

NextSearch ==
    \/ \E q \in Queries : SearchKeysCall(q)
    \/ SearchDone

SpecSearch == InitSearch /\ [][NextSearch]_vars

\* C6: after any search the result list holds at most 100 entries, counted
\* across the top-level buckets, the recursive branches and the keys of a
\* single bucket.
C6_SearchCap == pc = "done" => Len(results) <= MaxResults

(***************************************************************************)
(* The bucket summaries: buildBucketInfo, getAllBuckets, getBucketDetails. *)
(***************************************************************************)
\* findBucket as one function: the call, the iterations and the return
RECURSIVE FindLoop(_, _, _)
FindLoop(b, ps, c) ==
    IF c >= Len(ps) THEN b
    ELSE IF LoopBody(b, ps, c).ret THEN LoopBody(b, ps, c).result
    ELSE FindLoop(LoopBody(b, ps, c).bucket, ps, LoopBody(b, ps, c).i)

findBucket(p) ==
    LET trimmed == Trim(p)
        ps == IF trimmed = <<>> THEN <<>>
              ELSE NonEmptyParts(Split(trimmed))
        top == IF ps = <<>> THEN NilBucket ELSE TxBucket(ps[1])
    IN  IF top = NilBucket THEN NilBucket ELSE FindLoop(top, ps, 1)

\* the index of the last "/" of p, 0 if it has none
LastSlash(p) ==
    IF \E k \in 1..Len(p) : p[k] = Slash
    THEN CHOOSE k \in 1..Len(p) :
             p[k] = Slash /\ \A m \in (k + 1)..Len(p) : p[m] # Slash
    ELSE 0

\* filepath.Base: the last element of the path, "." for the empty path and
\* "/" for a path of separators only
Base(p) ==
    IF p = <<>> THEN <<46>>
    ELSE IF TrimRight(p) = <<>> THEN <<Slash>>
    ELSE SubSeq(TrimRight(p), LastSlash(TrimRight(p)) + 1, Len(TrimRight(p)))

\* mutant of KeyN: counts the nested buckets, not the entries
KeyN_NestedOnly(b) == Cardinality(SubBucketsOf(b))

\* b.Stats().KeyN: bbolt counts the elements of the leaf pages of b, a nested
\* bucket's entry as much as a pair, and adds the count of every nested
\* bucket
RECURSIVE KeyN(_)
RECURSIVE SumKeyN(_, _)
KeyN(b) == Len(EntriesOf(b)) + SumKeyN(b, SubBucketsOf(b))

SumKeyN(b, S) ==
    IF S = {} THEN 0
    ELSE KeyN(Append(b, CHOOSE x \in S : TRUE))
             + SumKeyN(b, S \ {CHOOSE x \in S : TRUE})

\* lines 1504-1539.  The page counts of Stats follow the layout of the file
\* and are left out; Stats.KeyN is KeyCount.
RECURSIVE buildBucketInfo(_, _, _, _)
RECURSIVE SubInfos(_, _, _, _)
buildBucketInfo(b, name, p, level) ==
    [Name |-> name, Path |-> p, Level |-> level, KeyCount |-> KeyN(b),
     IsExpanded |-> level < 2,
     SubBuckets |-> SubInfos(b, p, level, EntriesOf(b)),
     Keys |-> <<>>]

\* mutant of SubInfos: a nested bucket is summarised at the level of its
\* parent
SubInfos_LevelKept(b, p, level, es) ==
    IF es = <<>> THEN <<>>
    ELSE (IF Head(es).nested /\ SubBucket(b, Head(es).k) # NilBucket
          THEN <<buildBucketInfo(SubBucket(b, Head(es).k), Head(es).k,
                                 p \o <<Slash>> \o Head(es).k, level)>>
          ELSE <<>>)
         \o SubInfos(b, p, level, Tail(es))

\* lines 1526-1536: the callback on each entry of es, in order
SubInfos(b, p, level, es) ==
    IF es = <<>> THEN <<>>
    ELSE (IF Head(es).nested /\ SubBucket(b, Head(es).k) # NilBucket
          THEN <<buildBucketInfo(SubBucket(b, Head(es).k), Head(es).k,
                                 p \o <<Slash>> \o Head(es).k, level + 1)>>
          ELSE <<>>)
         \o SubInfos(b, p, level, Tail(es))

\* mutant of DetailKeys: a pair whose value is empty is left out as well
RECURSIVE DetailKeys(_)
DetailKeys_NonEmptyOnly(es) ==
    IF es = <<>> THEN <<>>
    ELSE (IF ~Head(es).nested /\ BLen(Head(es).v) > 0
          THEN <<parseKeyValue(Head(es).k, Head(es).v)>>
          ELSE <<>>)
         \o DetailKeys(Tail(es))

\* lines 1560-1566: the classified pairs of b, nested buckets left out
DetailKeys(es) ==
    IF es = <<>> THEN <<>>
    ELSE (IF ~Head(es).nested
          THEN <<parseKeyValue(Head(es).k, Head(es).v)>>
          ELSE <<>>)
         \o DetailKeys(Tail(es))

\* lines 1542-1573
getBucketDetails(bucketPath) ==
    IF findBucket(bucketPath) = NilBucket
    THEN [op |-> "getBucketDetails", err |-> "bucket not found",
          buckets |-> <<>>]
    ELSE [op |-> "getBucketDetails", err |-> "",
          buckets |->
              <<[buildBucketInfo(findBucket(bucketPath), Base(bucketPath),
                                 bucketPath, 0)
                    EXCEPT !.Keys = DetailKeys(EntriesOf(findBucket(bucketPath)))]>>]

\* lines 1479-1501, the database file being there
getAllBuckets ==
    [op |-> "getAllBuckets", err |-> "",
     buckets |-> [j \in 1..Len(TopBuckets) |->
                     buildBucketInfo(<<TopBuckets[j]>>, TopBuckets[j],
                                     TopBuckets[j], 0)]]

GetBucketDetailsCall(p) ==
    /\ pc = "idle"
    /\ path' = p
    /\ result' = findBucket(p)
    /\ info' = getBucketDetails(p)
    /\ pc' = "done"
    /\ UNCHANGED <<db, parts, bucket, i, clVars, seVars, rqVars, deVars>>

GetAllBucketsCall ==
    /\ pc = "idle"
    /\ info' = getAllBuckets
    /\ pc' = "done"
    /\ UNCHANGED <<db, fbVars, clVars, seVars, rqVars, deVars>>

\* the handler has sent the summary
DetailDone ==
    /\ pc = "done"
    /\ pc' = "idle"
    /\ path' = <<>>
    /\ result' = NilBucket
    /\ info' = NoInfo
    /\ UNCHANGED <<db, parts, bucket, i, clVars, seVars, rqVars, deVars>>

\* the most pairs of the bucket without nested buckets
MaxDirectKeys == 5

\* the bucket names "c", "d" and "d/e"
NameC == <<99>>
NameD == <<100>>
NameDE == <<100, Slash, 101>>

\* a deeper store: "a" holds n1 pairs and the nested buckets "b" (n2 pairs,
\* with the nested bucket "d"), "c" (one pair whose value is empty) and the
\* bucket whose name is "d/e" (one pair); "b" is an empty top-level bucket
TreeStore(n1, n2) ==
    [buckets |-> {<<<<LetterA>>>>, <<<<LetterA>>, <<LetterB>>>>,
                  <<<<LetterA>>, NameC>>, <<<<LetterA>>, NameDE>>,
                  <<<<LetterA>>, <<LetterB>>, NameD>>, <<<<LetterB>>>>},
     kv |-> [c \in {<<<<LetterA>>>>, <<<<LetterA>>, <<LetterB>>>>,
                    <<<<LetterA>>, NameC>>, <<<<LetterA>>, NameDE>>} |->
                IF c = <<<<LetterA>>>> THEN PairsUpTo(n1)
                ELSE IF c = <<<<LetterA>>, <<LetterB>>>> THEN PairsUpTo(n2)
                ELSE IF c = <<<<LetterA>>, NameC>>
                THEN <<[k |-> KeyName(1), v |-> BOf(<<>>)]>>
                ELSE PairsUpTo(1)]]

\* the stores of the summaries: "a" with the nested "a/b", and "b"; and the
\* deeper stores
DetailStores ==
    {SearchStore(n1, n2, n3) :
        n1 \in 0..SmallKeys, n2 \in 0..SmallKeys, n3 \in 0..MaxDirectKeys}
    \cup {TreeStore(n1, n2) : n1 \in 0..SmallKeys, n2 \in 0..SmallKeys}

\* "a", "b", "a/b", "/b/", "a/z", "z", the empty path, "a/c", "a/b/d",
\* "a/d/e" and "a/d/e/"
DetailPaths ==
    {<<LetterA>>, <<LetterB>>, <<LetterA, Slash, LetterB>>,
     <<Slash, LetterB, Slash>>, <<LetterA, Slash, 122>>, <<122>>, <<>>,
     <<LetterA, Slash>> \o NameC,
     <<LetterA, Slash, LetterB, Slash>> \o NameD,
     <<LetterA, Slash>> \o NameDE,
     <<LetterA, Slash>> \o NameDE \o <<Slash>>}

InitDetail ==
    /\ db \in DetailStores
    /\ pc = "idle"
    /\ path = <<>>
    /\ parts = <<>>
    /\ bucket = NilBucket
    /\ i = 0
    /\ result = NilBucket
    /\ value = <<>>
    /\ variant = "none"
    /\ kv = NoKV
    /\ query = <<>>
    /\ results = <<>>
    /\ req = NoRequests
    /\ info = NoInfo
    /\ out = NoOut
    /\ decodedKey = <<>>

NextDetail ==
    \/ \E p \in DetailPaths : GetBucketDetailsCall(p)
    \/ GetAllBucketsCall
    \/ DetailDone

SpecDetail == InitDetail /\ [][NextDetail]_vars

\* C20: the detail of a bucket with n pairs and no nested bucket reports the
\* key count n, no child summary and n classified entries, one per pair and
\* in the order of the keys.
C20_LeafBucketDetail ==
    pc = "done" /\ info.op = "getBucketDetails" /\ info.err = ""
        /\ SubBucketsOf(result) = {} =>
        /\ info.buckets[1].KeyCount = Len(PairsOf(result))
        /\ info.buckets[1].SubBuckets = <<>>
        /\ Len(info.buckets[1].Keys) = Len(PairsOf(result))
        /\ \A j \in 1..Len(PairsOf(result)) :
               /\ info.buckets[1].Keys[j].Key = PairsOf(result)[j].k
               /\ info.buckets[1].Keys[j].ValueSize
                      = BLen(PairsOf(result)[j].v)

\* a bucket with five pairs and no nested bucket has been summarised
C20_Witness ==
    /\ pc = "done" /\ info.op = "getBucketDetails" /\ info.err = ""
    /\ SubBucketsOf(result) = {}
    /\ Len(PairsOf(result)) = 5
    /\ info.buckets[1].KeyCount = 5
    /\ info.buckets[1].SubBuckets = <<>>
    /\ Len(info.buckets[1].Keys) = 5

(***************************************************************************)
(* The decoders of the decode handlers: time.Time.UnmarshalBinary (line    *)
(* 1359) and proto.Unmarshal into an anypb.Any (line 1425).                *)
(***************************************************************************)
\* the versions of the binary form of a time.Time
TimeBinaryV1 == 1
TimeBinaryV2 == 2
\* version, 8 bytes of seconds, 4 of nanoseconds, 2 of zone offset
TimeBinaryLen == 15

\* the Time that has not been decoded
NoTime == [err |-> "", sec |-> <<>>, nsec |-> <<>>, zone |-> <<>>]

\* t.UnmarshalBinary(data): the seconds, nanoseconds and zone offset as the
\* big-endian bytes the value holds
UnmarshalBinary(data) ==
    IF BLen(data) = 0 THEN [NoTime EXCEPT !.err = "no data"]
    ELSE IF BAt(data, 0) \notin {TimeBinaryV1, TimeBinaryV2}
    THEN [NoTime EXCEPT !.err = "unsupported version"]
    ELSE IF BLen(data) # TimeBinaryLen
                 + (IF BAt(data, 0) = TimeBinaryV2 THEN 1 ELSE 0)
    THEN [NoTime EXCEPT !.err = "invalid length"]
    ELSE [err |-> "",
          sec |-> SubSeq(BBytes(data), 2, 9),
          nsec |-> SubSeq(BBytes(data), 10, 13),
          zone |-> SubSeq(BBytes(data), 14, BLen(data))]

\* a 64-bit integer as four 16-bit limbs, the most significant first
Limb == 65536

\* the int64 held big-endian in the eight bytes q
Int64Of(q) == [k \in 1..4 |-> q[2 * k - 1] * 256 + q[2 * k]]

\* unixToInternal, 62135596800: the seconds from January 1, year 1 to 1970
UnixToInternal == <<0, 14, 30609, 63232>>

\* a - b on int64, wrapping: limb by limb with the borrow
RECURSIVE Sub64From(_, _, _, _)
Sub64From(a, b, k, borrow) ==
    IF k = 0 THEN <<>>
    ELSE Append(Sub64From(a, b, k - 1,
                          IF a[k] - b[k] - borrow < 0 THEN 1 ELSE 0),
                (a[k] - b[k] - borrow + Limb) % Limb)

Sub64(a, b) == Sub64From(a, b, 4, 0)

\* mutant of UnixSeconds: the seconds since year 1, not since 1970
UnixSeconds_SinceYearOne(t) == Int64Of(t.sec)

\* t.Unix() of a decoded Time: t.sec() + internalToUnix
UnixSeconds(t) == Sub64(Int64Of(t.sec), UnixToInternal)

\* a varint of more than four bytes stands for this number, which is beyond
\* every length and every field number of the model's values
VarintHuge == 268435456

\* 128^k for the first four bytes of a varint
Pow128(k) == CASE k = 0 -> 1 [] k = 1 -> 128 [] k = 2 -> 16384 [] OTHER -> 2097152

\* protowire.ConsumeVarint at q[pos]: n bytes consumed (0: truncated or
\* longer than ten bytes) and the number read
RECURSIVE VarintFrom(_, _, _, _)
VarintFrom(q, pos, k, acc) ==
    IF pos + k > Len(q) \/ k >= 10 \/ (k = 9 /\ q[pos + k] > 1)
    THEN [n |-> 0, val |-> 0]
    ELSE IF k >= 4
    THEN IF q[pos + k] < 128
         THEN [n |-> k + 1,
               val |-> IF q[pos + k] = 0 THEN acc ELSE VarintHuge]
         ELSE VarintFrom(q, pos, k + 1,
                         IF q[pos + k] = 128 THEN acc ELSE VarintHuge)
    ELSE IF q[pos + k] < 128
    THEN [n |-> k + 1, val |-> acc + q[pos + k] * Pow128(k)]
    ELSE VarintFrom(q, pos, k + 1, acc + (q[pos + k] - 128) * Pow128(k))

Varint(q, pos) == VarintFrom(q, pos, 0, 0)

\* the wire types of the protobuf encoding
WireVarint == 0
WireFixed64 == 1
WireBytes == 2
WireStartGroup == 3
WireEndGroup == 4
WireFixed32 == 5

\* the largest field number
MaxValidNumber == 536870911

\* protowire.ConsumeFieldValue at q[pos] for a field of number num and wire
\* type typ: the position after the field, 0 when it is malformed
RECURSIVE SkipField(_, _, _, _)
RECURSIVE SkipGroup(_, _, _)
SkipField(q, pos, num, typ) ==
    CASE typ = WireVarint ->
             IF Varint(q, pos).n = 0 THEN 0 ELSE pos + Varint(q, pos).n
      [] typ = WireFixed64 -> IF pos + 8 > Len(q) + 1 THEN 0 ELSE pos + 8
      [] typ = WireFixed32 -> IF pos + 4 > Len(q) + 1 THEN 0 ELSE pos + 4
      [] typ = WireBytes ->
             IF Varint(q, pos).n = 0
                 \/ pos + Varint(q, pos).n + Varint(q, pos).val > Len(q) + 1
             THEN 0
             ELSE pos + Varint(q, pos).n + Varint(q, pos).val
      [] typ = WireStartGroup -> SkipGroup(q, pos, num)
      [] OTHER -> 0

\* the fields of a group up to the end-group tag of the same number
SkipGroup(q, pos, num) ==
    IF Varint(q, pos).n = 0 \/ Varint(q, pos).val \div 8 < 1 THEN 0
    ELSE IF Varint(q, pos).val % 8 = WireEndGroup
    THEN IF Varint(q, pos).val \div 8 = num
         THEN pos + Varint(q, pos).n ELSE 0
    ELSE IF SkipField(q, pos + Varint(q, pos).n, Varint(q, pos).val \div 8,
                      Varint(q, pos).val % 8) = 0
    THEN 0
    ELSE SkipGroup(q, SkipField(q, pos + Varint(q, pos).n,
                                Varint(q, pos).val \div 8,
                                Varint(q, pos).val % 8), num)

\* the Any that has not been decoded
NoAny == [err |-> "", typeUrl |-> <<>>, value |-> <<>>]

ProtoError == [NoAny EXCEPT !.err = "cannot parse invalid wire-format data"]

\* proto.Unmarshal(q, &any) from q[pos] on: field 1 is the string type_url
\* (valid UTF-8), field 2 the bytes value, every other well-formed field is
\* skipped, and the last occurrence of a field wins
RECURSIVE UnmarshalAny(_, _, _)
UnmarshalAny(q, pos, any) ==
    IF pos > Len(q) THEN any
    ELSE LET t == Varint(q, pos)
             num == t.val \div 8
             typ == t.val % 8
             l == Varint(q, pos + t.n)
             from == pos + t.n + l.n
         IN  IF t.n = 0 \/ num < 1 \/ num > MaxValidNumber
                 \/ typ = WireEndGroup
             THEN ProtoError
             ELSE IF num \in {1, 2} /\ typ = WireBytes
             THEN IF l.n = 0 \/ from + l.val > Len(q) + 1 THEN ProtoError
                  ELSE IF num = 1
                  THEN IF ValidString(BOf(SubSeq(q, from, from + l.val - 1)))
                       THEN UnmarshalAny(q, from + l.val,
                                [any EXCEPT !.typeUrl =
                                     SubSeq(q, from, from + l.val - 1)])
                       ELSE [NoAny EXCEPT !.err = "invalid UTF-8"]
                  ELSE UnmarshalAny(q, from + l.val,
                           [any EXCEPT !.value =
                                SubSeq(q, from, from + l.val - 1)])
             ELSE IF SkipField(q, pos + t.n, num, typ) = 0 THEN ProtoError
             ELSE UnmarshalAny(q, SkipField(q, pos + t.n, num, typ), any)

protoUnmarshal(data) == UnmarshalAny(BBytes(data), 1, NoAny)

(***************************************************************************)
(* The inspection requests.  Every handler opens the file read-only for    *)
(* itself (bolt.Open ... defer db.Close()), runs one read transaction      *)
(* (db.View) and returns; the HTTP server runs each request on a goroutine *)
(* of its own, so the steps of different requests interleave.              *)
(***************************************************************************)
\* the requests that can be in progress together
MaxReqs == 2

Reqs == 1..MaxReqs

LetterZ == 122

\* the keys of the store of the requests, and a key it does not hold
KeyP == <<112>>
KeyT == <<116>>
KeyM == <<109>>

\* the binary form of 1970-01-01T00:00:00Z, and an Any with type_url "a" and
\* value "b"
TimeValue == BOf(<<1, 0, 0, 0, 14, 119, 145, 247, 0, 0, 0, 0, 0, 255, 255>>)
ProtoValue == BOf(<<10, 1, LetterA, 18, 1, LetterB>>)

\* bucket "a" with the pairs "p" and "t"
RequestStore ==
    [buckets |-> {<<<<LetterA>>>>},
     kv |-> [c \in {<<<<LetterA>>>>} |->
                <<[k |-> KeyP, v |-> ProtoValue],
                  [k |-> KeyT, v |-> TimeValue]>>]]

\* the operations with their arguments: existing and missing buckets and keys
Requests ==
    {[op |-> "getAllBuckets", path |-> <<>>, key |-> <<>>],
     [op |-> "getDatabaseStats", path |-> <<>>, key |-> <<>>],
     [op |-> "searchKeys", path |-> <<>>, key |-> KeyT]}
    \cup {[op |-> "getBucketDetails", path |-> p, key |-> <<>>] :
             p \in {<<LetterA>>, <<LetterZ>>}}
    \cup {[op |-> o, path |-> <<LetterA>>, key |-> k] :
             o \in {"getKeyDetails", "getFullKeyData"}, k \in {KeyT, KeyM}}
    \cup {[op |-> o, path |-> <<LetterZ>>, key |-> KeyT] :
             o \in {"getKeyDetails", "getFullKeyData", "handleDecodeTime",
                    "handleDecodeProtobuf"}}
    \cup {[op |-> o, path |-> <<LetterA>>, key |-> k] :
             o \in {"handleDecodeTime", "handleDecodeProtobuf"},
             k \in {KeyT, KeyP, KeyM}}

\* no value held
NoValue == [ref |-> "nil", bytes |-> <<>>]

\* no response built
NoData == [kind |-> "none"]

\* a request goroutine that runs no handler
IdleRequest ==
    [op |-> "none", pc |-> "idle", path |-> <<>>, key |-> <<>>,
     handle |-> "none", snap |-> FALSE, value |-> NoValue,
     staleRead |-> FALSE, err |-> "", data |-> NoData]

\* mutant of LockMode: every handle takes the exclusive lock
LockMode_AlwaysExclusive(readOnly) == "exclusive"

\* bolt.Open locks the file: shared for Options.ReadOnly, else exclusive
LockMode(readOnly) == IF readOnly THEN "shared" ELSE "exclusive"

\* flock on the file: an exclusive lock needs the file unlocked, a shared
\* lock needs it free of an exclusive lock
CanLock(mode, held) ==
    IF mode = "exclusive" THEN held = {} ELSE "exclusive" \notin held

\* the locks the handles of the other requests hold
LocksHeld(r) == {req[o].handle : o \in Reqs \ {r}} \ {"none"}

\* mutant of Get: the name of a nested bucket gives an empty value
Get_NestedAsEmpty(b, key) ==
    IF \E j \in 1..Len(PairsOf(b)) : PairsOf(b)[j].k = key
    THEN [nil |-> FALSE,
          v |-> PairsOf(b)[CHOOSE j \in 1..Len(PairsOf(b)) :
                               PairsOf(b)[j].k = key].v]
    ELSE [nil |-> key \notin SubBucketsOf(b), v |-> <<>>]

\* bucket.Get(key): nil for a missing key (and for a nested bucket)
Get(b, key) ==
    IF \E j \in 1..Len(PairsOf(b)) : PairsOf(b)[j].k = key
    THEN [nil |-> FALSE,
          v |-> PairsOf(b)[CHOOSE j \in 1..Len(PairsOf(b)) :
                               PairsOf(b)[j].k = key].v]
    ELSE [nil |-> TRUE, v |-> <<>>]

\* mutant of AfterView: the transaction leaves the store without its pairs
AfterView_Emptied(d) == [buckets |-> d.buckets, kv |-> <<>>]

\* the store once db.View has rolled its read transaction back
AfterView(d) == d

\* mutant of CloseOnReturn: the handle is closed on the success path only
CloseOnReturn_OnlyOnSuccess(handle, err) ==
    IF err = "" THEN "none" ELSE handle

\* defer db.Close(): runs on every return that follows a successful Open
CloseOnReturn(handle, err) == "none"

\* a slice of the memory map read once its transaction is over: the bytes
\* it had, or whatever the pages hold by then (here zeroes)
StaleReads(v) == {v, BRep(Nul, BLen(v))}

\* the closure passed to db.View, run in the open transaction: the error it
\* returns, the value slice the handler holds when it ends and the response
\* it has built
ViewBody(o, p, k) ==
    CASE o = "getAllBuckets" ->
             [err |-> "", value |-> NoValue,
              data |-> [kind |-> "buckets", buckets |-> getAllBuckets.buckets]]
      [] o = "getBucketDetails" ->
             IF findBucket(p) = NilBucket
             THEN [err |-> "bucket not found", value |-> NoValue,
                   data |-> NoData]
             ELSE [err |-> "", value |-> NoValue,
                   data |-> [kind |-> "bucket",
                             bucket |-> getBucketDetails(p).buckets[1]]]
      [] o = "searchKeys" ->
             [err |-> "", value |-> NoValue,
              data |-> [kind |-> "results", results |-> searchKeys(k)]]
      [] OTHER ->
             IF findBucket(p) = NilBucket
             THEN [err |-> "bucket not found", value |-> NoValue,
                   data |-> NoData]
             ELSE IF Get(findBucket(p), k).nil
             THEN [err |-> "key not found", value |-> NoValue,
                   data |-> NoData]
             ELSE CASE o = "getKeyDetails" ->
                           [err |-> "",
                            value |-> [ref |-> "borrowed",
                                       bytes |-> Get(findBucket(p), k).v],
                            data |-> [kind |-> "key",
                                      kv |-> keyDetailsKV(k,
                                                 Get(findBucket(p), k).v)]]
                    [] o = "getFullKeyData" ->
                           [err |-> "",
                            value |-> [ref |-> "borrowed",
                                       bytes |-> Get(findBucket(p), k).v],
                            data |-> [kind |-> "key",
                                      kv |-> fullKeyDataKV(k,
                                                 Get(findBucket(p), k).v)]]
                    [] o = "handleDecodeTime" ->
                           \* line 1345: value = b.Get(...), kept as it is
                           [err |-> "",
                            value |-> [ref |-> "borrowed",
                                       bytes |-> Get(findBucket(p), k).v],
                            data |-> NoData]
                    [] OTHER ->
                           \* lines 1405-1413: value = copy of bucket.Get(...)
                           [err |-> "",
                            value |-> [ref |-> "copied",
                                       bytes |-> Get(findBucket(p), k).v],
                            data |-> NoData]

\* the operations whose value variable outlives the closure
KeepsValue(o) == o \in {"handleDecodeTime", "handleDecodeProtobuf"}

\* bolt.Open(..., ReadOnly: true) of request r gets its lock at once
CanOpen(r) == CanLock(LockMode(TRUE), LocksHeld(r))

\* the handler is entered, bolt.Open(..., ReadOnly: true) succeeds and, but
\* in getDatabaseStats, db.View begins a read transaction and runs the
\* closure to its return
OpenRequest(r, rq) ==
    /\ req[r].pc = "idle"
    /\ CanOpen(r)
    /\ LET body == ViewBody(rq.op, rq.path, rq.key) IN
       req' = [req EXCEPT ![r] =
                  IF rq.op = "getDatabaseStats"
                  THEN [IdleRequest EXCEPT !.op = rq.op, !.pc = "open",
                                           !.handle = LockMode(TRUE)]
                  ELSE [IdleRequest EXCEPT
                           !.op = rq.op, !.pc = "view",
                           !.path = rq.path, !.key = rq.key,
                           !.handle = LockMode(TRUE), !.snap = TRUE,
                           !.err = body.err, !.value = body.value,
                           !.data = body.data]]
    /\ UNCHANGED <<db, pc, fbVars, clVars, seVars, biVars, deVars>>

\* the handler returns before it holds a handle: the file is missing or
\* bolt.Open fails
OpenFails(r, rq) ==
    /\ req[r].pc = "idle"
    /\ req' = [req EXCEPT ![r] =
                  [IdleRequest EXCEPT !.pc = "returned",
                                      !.err = "failed to open database"]]
    /\ UNCHANGED <<db, pc, fbVars, clVars, seVars, biVars, deVars>>

\* db.View rolls the transaction back and returns the closure's error; the
\* variables of the closure are gone
ViewEnd(r) ==
    /\ req[r].pc = "view"
    /\ db' = AfterView(db)
    /\ req' = [req EXCEPT ![r] =
                  [req[r] EXCEPT
                      !.pc = "viewed", !.snap = FALSE,
                      !.value = IF KeepsValue(req[r].op) THEN req[r].value
                                ELSE NoValue]]
    /\ UNCHANGED <<pc, fbVars, clVars, seVars, biVars, deVars>>

\* the bytes a read of the held value can give
ReadsOf(q) ==
    IF q.value.ref = "borrowed" /\ ~q.snap THEN StaleReads(q.value.bytes)
    ELSE {q.value.bytes}

\* the response of a decode handler that has read the bytes read
Decoded(o, read) ==
    IF o = "handleDecodeTime"
    THEN [err |-> IF UnmarshalBinary(read).err = "" THEN ""
                  ELSE "failed to decode timestamp",
          data |-> IF UnmarshalBinary(read).err = ""
                   THEN [kind |-> "time", t |-> UnmarshalBinary(read),
                         timestamp |-> UnixSeconds(UnmarshalBinary(read))]
                   ELSE NoData]
    ELSE [err |-> IF protoUnmarshal(read).err = "" THEN ""
                  ELSE "protobuf decoding failed",
          data |-> IF protoUnmarshal(read).err = ""
                   THEN [kind |-> "any",
                         typeUrl |-> protoUnmarshal(read).typeUrl,
                         value |-> protoUnmarshal(read).value,
                         size |-> Len(protoUnmarshal(read).value)]
                   ELSE NoData]

\* the code after db.View up to the return: the error of the closure is
\* reported, a decode handler decodes the value it holds, the response is
\* written and the deferred db.Close() runs.  Of the handler's variables
\* only the outcome is kept.
Return(r) ==
    /\ req[r].pc = "viewed"
    /\ \E read \in ReadsOf(req[r]) :
           LET sent == IF req[r].err = "" /\ KeepsValue(req[r].op)
                       THEN Decoded(req[r].op, read)
                       ELSE [err |-> req[r].err, data |-> req[r].data]
           IN  req' = [req EXCEPT ![r] =
                   [IdleRequest EXCEPT
                       !.pc = "returned",
                       !.snap = req[r].snap,
                       !.staleRead = /\ req[r].err = ""
                                     /\ KeepsValue(req[r].op)
                                     /\ req[r].value.ref = "borrowed"
                                     /\ ~req[r].snap,
                       !.err = sent.err,
                       !.data = sent.data,
                       !.handle = CloseOnReturn(req[r].handle, sent.err)]]
    /\ UNCHANGED <<db, pc, fbVars, clVars, seVars, biVars, deVars>>

\* lines 1952-1978: getDatabaseStats reads db.Stats() and the file
\* information without a transaction; os.Stat can fail
StatsReturn(r) ==
    /\ req[r].pc = "open"
    /\ req[r].op = "getDatabaseStats"
    /\ \E statOk \in BOOLEAN :
           req' = [req EXCEPT ![r] =
               [IdleRequest EXCEPT
                   !.pc = "returned",
                   !.err = IF statOk THEN "" ELSE "stat failed",
                   !.data = IF statOk THEN [kind |-> "stats"] ELSE NoData,
                   !.handle = CloseOnReturn(req[r].handle,
                                  IF statOk THEN "" ELSE "stat failed")]]
    /\ UNCHANGED <<db, pc, fbVars, clVars, seVars, biVars, deVars>>

\* the response is sent and the goroutine of the request ends
RequestEnds(r) ==
    /\ req[r].pc = "returned"
    /\ req' = [req EXCEPT ![r] =
                  [IdleRequest EXCEPT !.handle = req[r].handle,
                                      !.snap = req[r].snap]]
    /\ UNCHANGED <<db, pc, fbVars, clVars, seVars, biVars, deVars>>

InitRequests ==
    /\ db = RequestStore
    /\ pc = "idle"
    /\ path = <<>>
    /\ parts = <<>>
    /\ bucket = NilBucket
    /\ i = 0
    /\ result = NilBucket
    /\ value = <<>>
    /\ variant = "none"
    /\ kv = NoKV
    /\ query = <<>>
    /\ results = <<>>
    /\ req = [r \in Reqs |-> IdleRequest]
    /\ info = NoInfo
    /\ out = NoOut
    /\ decodedKey = <<>>

NextRequests ==
    \/ \E r \in Reqs, rq \in Requests : OpenRequest(r, rq)
    \/ \E r \in Reqs, rq \in Requests : OpenFails(r, rq)
    \/ \E r \in Reqs : ViewEnd(r)
    \/ \E r \in Reqs : Return(r)
    \/ \E r \in Reqs : StatsReturn(r)
    \/ \E r \in Reqs : RequestEnds(r)

SpecRequests == InitRequests /\ [][NextRequests]_vars

\* C16: no handler reads a value slice of bucket.Get after its db.View has
\* returned unless it copied the value inside the transaction.
C16_ValueReadInsideSnapshotOrCopied ==
    \A r \in DOMAIN req : ~req[r].staleRead

\* C17: when an inspection operation has returned, on the success path or
\* on any error path, its snapshot is released and its handle is closed, and
\* a snapshot is open only while db.View runs.
C17_ReleasedOnReturn ==
    \A r \in DOMAIN req :
        /\ req[r].pc \in {"returned", "idle"} =>
               req[r].handle = "none" /\ ~req[r].snap
        /\ req[r].snap => req[r].pc = "view"

\* requests have returned after an Open: one with its answer, one with
\* key-not-found, one with a decode error, each with nothing left open
C17_Witness ==
    \E r \in DOMAIN req :
        /\ req[r].pc = "returned"
        /\ req[r].err = "protobuf decoding failed"
        /\ req[r].handle = "none" /\ ~req[r].snap

\* C18: no step of any request changes the store.
C18_StoreUnchanged == [][db' = db]_vars

\* a request has answered and another has failed on the store, which still
\* holds its bucket and its two pairs
C18_Witness ==
    /\ DOMAIN req = Reqs
    /\ \E r, o \in Reqs :
           /\ req[r].pc = "returned" /\ req[r].err = ""
           /\ req[r].data.kind = "key"
           /\ req[o].pc = "returned" /\ req[o].err = "key not found"
    /\ db = RequestStore
    /\ Len(PairsOf(<<<<LetterA>>>>)) = 2

\* C19: a request never waits for another one (the lock its Open needs is
\* free whatever the other requests hold, and no later step has a condition
\* on another request), several requests hold a snapshot together, a
\* snapshot lives inside the handle of its own request, and an idle
\* goroutine holds no handle, no snapshot and no value.
C19_IndependentRequests ==
    \A r \in DOMAIN req :
        /\ req[r].snap => req[r].handle # "none"
        /\ req[r].pc = "idle" =>
               /\ req[r].handle = "none" /\ ~req[r].snap
               /\ req[r].value = NoValue
               /\ CanOpen(r)

\* two requests hold a snapshot each at the same time
C19_Witness ==
    /\ DOMAIN req = Reqs
    /\ req[1].snap /\ req[2].snap
    /\ req[1].handle = "shared" /\ req[2].handle = "shared"

(***************************************************************************)
(* The decode handlers on the value they have fetched: lines 1357-1372 and *)
(* 1423-1437.                                                              *)
(***************************************************************************)
\* the longest value of the protobuf family
MaxProtoLen == 5

\* the seconds of 1970-01-01T00:00:00Z, of the second after and the second
\* before it, and of January 1 of the year 1
EpochSec == <<0, 0, 0, 14, 119, 145, 247, 0>>

SecSamples ==
    {EpochSec, <<0, 0, 0, 14, 119, 145, 247, 1>>,
     <<0, 0, 0, 14, 119, 145, 246, 255>>, <<0, 0, 0, 0, 0, 0, 0, 0>>}

\* what follows the nanoseconds: nothing, half a zone offset, the offset of
\* UTC, and the offset with one and with two more bytes
TimeTails ==
    {<<>>, <<255>>, <<255, 255>>, <<255, 255, 0>>, <<255, 255, 0, 0>>}

\* values of 13 to 17 bytes in the layout of a binary time, and two short ones
TimeValues ==
    {BOf(<<ver>> \o sec \o <<0, 0, 0, 0>> \o tail) :
        ver \in 0..3, sec \in SecSamples, tail \in TimeTails}
    \cup {BOf(<<TimeBinaryV1>>), BOf(<<TimeBinaryV1, 0>>)}

\* the bytes of the protobuf family: 0, 1, the tags of type_url and value,
\* "a" and a byte with the continuation bit
ProtoBytes == {0, 1, 10, 18, LetterA, 128}

RECURSIVE ProtoSeqs(_)
ProtoSeqs(n) ==
    IF n = 0 THEN {<<>>}
    ELSE ProtoSeqs(n - 1)
         \cup {Append(q, c) : q \in {x \in ProtoSeqs(n - 1) : Len(x) = n - 1},
                              c \in ProtoBytes}

\* an unknown varint field, a group, an unfinished group, invalid UTF-8
ProtoExtras ==
    {<<8, 1>>, <<27, 8, 1, 28>>, <<27, 8, 1>>, <<10, 1, 255>>,
     <<10, 1, LetterA, 18, 1, LetterB>>, <<10, 1, LetterA, 18, 2, LetterB>>}

DecodeValues ==
    TimeValues \cup {BOf(q) : q \in ProtoSeqs(MaxProtoLen) \cup ProtoExtras}

\* lines 1357-1372 on the value v
DecodeTimeCall(v) ==
    /\ pc = "idle"
    /\ value' = v
    /\ out' = [op |-> "handleDecodeTime",
               err |-> Decoded("handleDecodeTime", v).err,
               data |-> Decoded("handleDecodeTime", v).data]
    /\ pc' = "done"
    /\ UNCHANGED <<db, fbVars, variant, kv, seVars, rqVars, biVars,
                   decodedKey>>

\* lines 1423-1437 on the value v
DecodeProtobufCall(v) ==
    /\ pc = "idle"
    /\ value' = v
    /\ out' = [op |-> "handleDecodeProtobuf",
               err |-> Decoded("handleDecodeProtobuf", v).err,
               data |-> Decoded("handleDecodeProtobuf", v).data]
    /\ pc' = "done"
    /\ UNCHANGED <<db, fbVars, variant, kv, seVars, rqVars, biVars,
                   decodedKey>>

\* the response is sent
DecodeDone ==
    /\ pc = "done"
    /\ pc' = "idle"
    /\ value' = <<>>
    /\ out' = NoOut
    /\ UNCHANGED <<db, fbVars, variant, kv, seVars, rqVars, biVars,
                   decodedKey>>

InitDecode ==
    /\ db = [buckets |-> {}, kv |-> <<>>]
    /\ pc = "idle"
    /\ path = <<>>
    /\ parts = <<>>
    /\ bucket = NilBucket
    /\ i = 0
    /\ result = NilBucket
    /\ value = <<>>
    /\ variant = "none"
    /\ kv = NoKV
    /\ query = <<>>
    /\ results = <<>>
    /\ req = NoRequests
    /\ info = NoInfo
    /\ out = NoOut
    /\ decodedKey = <<>>

NextDecode ==
    \/ pc = "idle" /\ \E v \in DecodeValues : DecodeTimeCall(v)
    \/ pc = "idle" /\ \E v \in DecodeValues : DecodeProtobufCall(v)
    \/ DecodeDone

SpecDecode == InitDecode /\ [][NextDecode]_vars

\* the length the binary time of the version in the first byte of v has
EncodingLen(v) ==
    IF BLen(v) > 0 /\ BAt(v, 0) = TimeBinaryV2
    THEN TimeBinaryLen + 1 ELSE TimeBinaryLen

\* C21: decoding a timestamp fails, with no field of the answer, for every
\* value whose length is not the length of the binary time encoding (15
\* bytes, 16 for the version with the seconds of the zone offset), and for a
\* valid encoding of 1970-01-01T00:00:00Z the timestamp is 0.
C21_TimeLengthAndEpoch ==
    pc = "done" /\ out.op = "handleDecodeTime" =>
        /\ BLen(value) # EncodingLen(value) =>
               out.err # "" /\ out.data = NoData
        /\ (/\ BLen(value) = EncodingLen(value)
            /\ BAt(value, 0) \in {TimeBinaryV1, TimeBinaryV2}
            /\ SubSeq(BBytes(value), 2, 9) = EpochSec) =>
               /\ out.err = ""
               /\ out.data.timestamp = <<0, 0, 0, 0>>

\* the 15-byte encoding of 1970-01-01T00:00:00Z has been decoded to 0, and
\* so has the 16-byte one
C21_Witness ==
    /\ pc = "done" /\ out.op = "handleDecodeTime" /\ out.err = ""
    /\ BLen(value) = 16
    /\ SubSeq(BBytes(value), 2, 9) = EpochSec
    /\ out.data.timestamp = <<0, 0, 0, 0>>

\* the bytes q are a type_url field followed by nothing or by a value field
\* that ends the data
FormsEnvelope(q) ==
    /\ Len(q) >= 2 /\ q[1] = 10
    /\ Varint(q, 2).n > 0
    /\ LET next == 2 + Varint(q, 2).n + Varint(q, 2).val IN
       \/ next = Len(q) + 1
       \/ /\ next + 1 <= Len(q) /\ q[next] = 18
          /\ Varint(q, next + 1).n > 0
          /\ next + 1 + Varint(q, next + 1).n + Varint(q, next + 1).val
                 = Len(q) + 1

\* C22: decoding an envelope fails, with no field of the answer, for every
\* value with a cut length prefix, a declared length beyond the data, or
\* bytes that are not a whole type-identifier/payload envelope; on success
\* size is the byte length of the payload.
C22_EnvelopeFailsClosed ==
    pc = "done" /\ out.op = "handleDecodeProtobuf" =>
        /\ ~FormsEnvelope(BBytes(value)) =>
               out.err # "" /\ out.data = NoData
        /\ out.err = "" => out.data.size = Len(out.data.value)

(***************************************************************************)
(* The order of the attempts of findBucket (lines 1604-1648).              *)
(***************************************************************************)
\* the child of bucket that the segments parts[i:j] joined by "/" name
JoinChild(j) == SubBucket(bucket, Join(Slice(parts, i, j)))

\* the ends j of the joins of two or more segments from the cursor that name
\* a child of bucket
JoinEnds == {j \in (i + 2)..Len(parts) : JoinChild(j) # NilBucket}

\* an iteration of the main loop is about to run
InLoop == pc = "loop" /\ i < Len(parts)

\* C23: below the top level the exact match of the next segment comes first
\* and is final: a child named by the segment is entered, with the cursor
\* one further and no join tried, and no step ever leaves the bucket reached
\* but for one of its own children.
C23_ExactFirstNoBacktracking ==
    [][/\ InLoop /\ SubBucket(bucket, parts[i + 1]) # NilBucket =>
              /\ bucket' = SubBucket(bucket, parts[i + 1])
              /\ i' = i + 1
              /\ pc' = "loop"
       /\ InLoop =>
              /\ \/ bucket' = bucket
                 \/ /\ Len(bucket') = Len(bucket) + 1
                    /\ SubSeq(bucket', 1, Len(bucket)) = bucket
              /\ pc' = "done" => result' \in {NilBucket, bucket'}]_vars

\* "a/a/a/a" has failed in the bucket a/a entered by the exact match, in a
\* store where the join "a/a" at that level leads to a nested bucket "a"
C23_Witness ==
    /\ pc = "done" /\ result = NilBucket
    /\ parts = <<<<LetterA>>, <<LetterA>>, <<LetterA>>, <<LetterA>>>>
    /\ bucket = <<<<LetterA>>, <<LetterA>>>>
    /\ <<<<LetterA>>, <<LetterA, Slash, LetterA>>, <<LetterA>>>>
           \in db.buckets

\* the largest element of the non-empty set S of numbers
MaxOf(S) == CHOOSE x \in S : \A y \in S : y <= x

MaxFairBuckets == 3

InitResolveFair == InitResolve /\ Cardinality(db.buckets) <= MaxFairBuckets

SpecResolveFair ==
    /\ InitResolveFair
    /\ [][NextResolve]_vars
    /\ WF_vars(FindBucketLoop)
    /\ WF_vars(FindBucketReturn)

\* C30: findBucket terminates: an iteration that does not return leaves the
\* cursor strictly larger and no larger than the number of segments, also
\* after a contraction, and every call that reaches the loop returns.
C30_CursorAdvancesAndTerminates ==
    /\ [][pc = "loop" /\ pc' = "loop" /\ i < Len(parts) =>
              i' > i /\ i' <= Len(parts)]_vars
    /\ (pc = "loop" ~> pc = "done")

\* the contraction "a/a" under "a" has moved the cursor from 1 to 3 and the
\* loop goes on with the last segment of "a/a/a/a"
C30_Witness ==
    /\ pc = "loop"
    /\ i = 3
    /\ Len(parts) = 4
    /\ bucket = <<<<LetterA>>, <<LetterA, Slash, LetterA>>>>

(***************************************************************************)
(* Claims about the trees of summaries, checked under SpecDetail.          *)
(***************************************************************************)
\* the summary s of bucket b has one child summary per nested bucket of b
\* and no other, in the byte order of the names, one level down and with
\* the path of s extended by the name; and so has every child summary
RECURSIVE ChildrenOK(_, _)
ChildrenOK(s, b) ==
    /\ Len(s.SubBuckets) = Cardinality(SubBucketsOf(b))
    /\ {s.SubBuckets[j].Name : j \in 1..Len(s.SubBuckets)} = SubBucketsOf(b)
    /\ \A j \in 1..(Len(s.SubBuckets) - 1) :
           BytesLess(s.SubBuckets[j].Name, s.SubBuckets[j + 1].Name)
    /\ \A j \in 1..Len(s.SubBuckets) :
           /\ s.SubBuckets[j].Level = s.Level + 1
           /\ s.SubBuckets[j].Path
                  = s.Path \o <<Slash>> \o s.SubBuckets[j].Name
           /\ \A m \in 1..Len(PairsOf(b)) :
                  PairsOf(b)[m].k # s.SubBuckets[j].Name
           /\ ChildrenOK(s.SubBuckets[j], Append(b, s.SubBuckets[j].Name))

\* C25: in every tree of summaries each nested bucket of a bucket is a child
\* summary exactly once, in the order of the store, one level below its
\* parent and with the parent's path + "/" + its name as path; no pair is a
\* child summary.
C25_ChildSummaries ==
    /\ pc = "done" /\ info.op = "getAllBuckets" =>
           \A j \in 1..Len(info.buckets) :
               ChildrenOK(info.buckets[j], <<info.buckets[j].Name>>)
    /\ pc = "done" /\ info.op = "getBucketDetails" /\ info.err = "" =>
           ChildrenOK(info.buckets[1], result)

\* the root tree of a deeper store: "a" with pairs and its three nested
\* buckets in order, "d" below "a/b"
C25_Witness ==
    /\ pc = "done" /\ info.op = "getAllBuckets"
    /\ Len(PairsOf(<<<<LetterA>>>>)) = 2
    /\ Len(info.buckets) = 2
    /\ Len(info.buckets[1].SubBuckets) = 3
    /\ info.buckets[1].SubBuckets[3].Name = NameDE
    /\ info.buckets[1].SubBuckets[1].SubBuckets[1].Path
           = <<LetterA, Slash, LetterB, Slash>> \o NameD
    /\ info.buckets[1].SubBuckets[1].SubBuckets[1].Level = 2

\* the summary s and the summaries below it carry no key list
RECURSIVE NoKeysBelow(_)
NoKeysBelow(s) ==
    /\ s.Keys = <<>>
    /\ \A j \in 1..Len(s.SubBuckets) : NoKeysBelow(s.SubBuckets[j])

\* C26: the root tree carries no key list at any depth; the detail of a
\* bucket lists its pairs, one entry per pair and in their order, so that
\* every entry of the bucket is either a child summary or a listed key, and
\* the summaries below the target carry no key list.
C26_LeafContents ==
    /\ pc = "done" /\ info.op = "getAllBuckets" =>
           \A j \in 1..Len(info.buckets) : NoKeysBelow(info.buckets[j])
    /\ pc = "done" /\ info.op = "getBucketDetails" /\ info.err = "" =>
           /\ Len(info.buckets[1].Keys) = Len(PairsOf(result))
           /\ \A j \in 1..Len(PairsOf(result)) :
                  /\ info.buckets[1].Keys[j].Key = PairsOf(result)[j].k
                  /\ info.buckets[1].Keys[j].ValueSize
                         = BLen(PairsOf(result)[j].v)
           /\ Len(info.buckets[1].Keys) + Len(info.buckets[1].SubBuckets)
                  = Len(EntriesOf(result))
           /\ \A j \in 1..Len(info.buckets[1].Keys) :
              \A m \in 1..Len(info.buckets[1].SubBuckets) :
                  info.buckets[1].Keys[j].Key
                      # info.buckets[1].SubBuckets[m].Name
           /\ \A m \in 1..Len(info.buckets[1].SubBuckets) :
                  NoKeysBelow(info.buckets[1].SubBuckets[m])

\* the detail of "a/c", whose one pair has an empty value, lists that pair
C26_Witness ==
    /\ pc = "done" /\ info.op = "getBucketDetails" /\ info.err = ""
    /\ result = <<<<LetterA>>, NameC>>
    /\ Len(info.buckets[1].Keys) = 1
    /\ info.buckets[1].Keys[1].ValueSize = 0

\* C29: the detail of a bucket carries the name the resolved bucket has in
\* the store, also a name with "/" in it that a contraction matched, and the
\* requested path as its path.
C29_DetailNameIsBucketName ==
    pc = "done" /\ info.op = "getBucketDetails" /\ info.err = "" =>
        /\ info.buckets[1].Name = result[Len(result)]
        /\ info.buckets[1].Path = path

(***************************************************************************)
(* The key lookups one at a time: getKeyDetails (1756-1808),               *)
(* getFullKeyData (1811-1882) and the decode handlers (1312-1438), each    *)
(* from bolt.Open to its return, on the stores of the summaries.           *)
(***************************************************************************)
KeyOps ==
    {"getKeyDetails", "getFullKeyData", "handleDecodeTime",
     "handleDecodeProtobuf"}

\* the keys asked for: the first two keys of the pairs, the name "b" of a
\* nested bucket, and "z", which names nothing
LookupKeys == {KeyName(1), KeyName(2), <<LetterB>>, <<LetterZ>>}

\* the whole handler: the closure of db.View finds the bucket and the key;
\* a decode handler then decodes the value it holds, which handleDecodeTime
\* reads after its transaction is over
LookupCall(o, p, k) ==
    /\ pc = "idle"
    /\ path' = p
    /\ decodedKey' = k
    /\ result' = findBucket(p)
    /\ LET body == ViewBody(o, p, k) IN
       \E read \in IF body.value.ref = "borrowed" /\ KeepsValue(o)
                   THEN StaleReads(body.value.bytes)
                   ELSE {body.value.bytes} :
           out' = IF body.err = "" /\ KeepsValue(o)
                  THEN [op |-> o, err |-> Decoded(o, read).err,
                        data |-> Decoded(o, read).data]
                  ELSE [op |-> o, err |-> body.err, data |-> body.data]
    /\ pc' = "done"
    /\ UNCHANGED <<db, parts, bucket, i, clVars, seVars, rqVars, biVars>>

\* the response is sent
LookupDone ==
    /\ pc = "done"
    /\ pc' = "idle"
    /\ path' = <<>>
    /\ decodedKey' = <<>>
    /\ result' = NilBucket
    /\ out' = NoOut
    /\ UNCHANGED <<db, parts, bucket, i, clVars, seVars, rqVars, biVars>>

InitLookup == InitDetail

NextLookup ==
    \/ pc = "idle" /\ \E o \in KeyOps, p \in DetailPaths, k \in LookupKeys :
                          LookupCall(o, p, k)
    \/ LookupDone

SpecLookup == InitLookup /\ [][NextLookup]_vars

\* C27: a key lookup whose bucket path does not resolve, or whose key is not
\* the key of a pair of the resolved bucket (it is missing, or it is the
\* name of a nested bucket), returns a not-found error and no classified or
\* decoded value.
C27_LookupFailsClosed ==
    pc = "done" /\ out.op \in KeyOps
        /\ (\/ result = NilBucket
            \/ \A j \in 1..Len(PairsOf(result)) :
                   PairsOf(result)[j].k # decodedKey) =>
        /\ out.err \in {"bucket not found", "key not found"}
        /\ out.err = "bucket not found" <=> result = NilBucket
        /\ out.data = NoData

\* the timestamp decoder has been asked for the key "b" of bucket "a",
\* where "b" is a nested bucket, and has answered that there is no such key
C27_Witness ==
    /\ pc = "done" /\ out.op = "handleDecodeTime"
    /\ result = <<<<LetterA>>>>
    /\ decodedKey = <<LetterB>>
    /\ decodedKey \in SubBucketsOf(result)
    /\ out.err = "key not found"
    /\ out.data = NoData

(***************************************************************************)
(* What a search should return, from the store alone, for the claim about  *)
(* the results of searchKeys (checked under SpecSearch).                   *)
(***************************************************************************)
\* the pairs of bucket b and of the buckets below it, each with the path p
\* of its bucket, in the order of a depth-first walk of the entries
RECURSIVE PairsBelow(_, _)
RECURSIVE PairsAmong(_, _, _, _, _)
PairsAmong(b, p, es, lo, hi) ==
    IF lo > hi THEN <<>>
    ELSE IF lo = hi
    THEN (IF es[lo].nested
          THEN PairsBelow(Append(b, es[lo].k), p \o <<Slash>> \o es[lo].k)
          ELSE <<[bucket |-> p, key |-> es[lo].k]>>)
    ELSE PairsAmong(b, p, es, lo, (lo + hi) \div 2)
             \o PairsAmong(b, p, es, (lo + hi) \div 2 + 1, hi)

PairsBelow(b, p) == PairsAmong(b, p, EntriesOf(b), 1, Len(EntriesOf(b)))

RECURSIVE PairsOfAll(_)
PairsOfAll(names) ==
    IF names = <<>> THEN <<>>
    ELSE PairsBelow(<<Head(names)>>, Head(names)) \o PairsOfAll(Tail(names))

\* the byte c without the case of an ASCII letter
FoldCase(c) == IF c \in 65..90 THEN c + 32 ELSE c

\* the name t contains sub, the case of ASCII letters set aside
ContainsFold(t, sub) ==
    \E k \in 0..(Len(t) - Len(sub)) :
        \A m \in 1..Len(sub) : FoldCase(t[k + m]) = FoldCase(sub[m])

\* the pairs a search for q is to find
Matching(q) ==
    SelectSeq(PairsOfAll(TopBuckets), LAMBDA h : ContainsFold(h.key, q))

\* C28: a search with a non-empty query on a store with fewer than 100
\* matching pairs returns one result for each pair, at any depth, whose key
\* contains the query whatever the case, in depth-first order and with the
\* path of the pair's bucket, and nothing else: no bucket name and no value
\* is matched.
C28_SearchSoundAndComplete ==
    pc = "done" /\ query # <<>> /\ Len(Matching(query)) < MaxResults =>
        /\ Len(results) = Len(Matching(query))
        /\ \A j \in 1..Len(results) :
               /\ results[j].bucket = Matching(query)[j].bucket
               /\ results[j].key = Matching(query)[j].key

====
